---- MODULE Spec2Model ----
(***************************************************************************)
(* Model of the powerseries library (pdonis/powerseries).                  *)
(*                                                                         *)
(*   Spec      MemoizedGenerator (src/MemoizedGenerator.py): one memoized  *)
(*             generator, several realizations ("cursors") of it, next()   *)
(*             calls interleaved in any order.                             *)
(***************************************************************************)
EXTENDS Integers, Sequences, FiniteSets, TLC

\* ------------------------------------------------------------------------
\* Bounds of the model
\* ------------------------------------------------------------------------
NumCursors == 2
MaxGenLen == 2
MaxTerm == 1
MaxLen == 2
TestLimit == 3
\* bits in the mantissa of a float
MantissaBits == 4
\* PowerFunction.terms_max and PowerFunction.ratio_max, class fields (50 and 5
\* in powerfunc.py)
terms_max == 5
ratio_max == 2
MaxCalls == 2
\* cached_class: the number of constructions of the decorated class
MaxMade == 2
\* IndexedGenerator: the longest generator
MaxItems == 3
\* memoize_generator: the addresses instances can have, and the number of
\* instances made
NumAddrs == 3
MaxSeries == 4

Cursors == 1..NumCursors

\* ------------------------------------------------------------------------
\* MemoizedGenerator (src/MemoizedGenerator.py)
\* ------------------------------------------------------------------------
VARIABLES
    gen,        \* self.__gen: the wrapped generator function, as the list of
                \* the statements its body runs: yield v, or raise
    cache,      \* self.__cache
    iter,       \* self.__iter: None, or the one generator object made from gen
    empty,      \* self.__empty
    cursors,    \* the realizations made by calling the instance: each is a
                \* generator object running the body of __call__, with its local n
    log,        \* history: per realization, the (n, term) pairs it yielded, and
                \* whether __empty was set when it yielded them
    outcome,    \* history: per realization, how its last next() ended
    adv         \* history: every next(self.__iter) made, with the realization
                \* and the index that asked for it and how it ended

mvars == <<gen, cache, iter, empty, cursors, log, outcome, adv>>

\* The statements a generator body can run between two resumptions.
Stmts == [k : {"yield"}, v : 0..MaxTerm] \cup [k : {"raise"}, v : {0}]

RECURSIVE SeqsUpTo(_, _)
SeqsUpTo(S, n) ==
    IF n = 0 THEN {<<>>}
    ELSE LET shorter == SeqsUpTo(S, n - 1)
         IN  shorter \cup {Append(s, x) : s \in {t \in shorter : Len(t) = n - 1}, x \in S}

\* A generator function raises at most as its last statement: nothing after a
\* raise is ever run.
GenFuncs ==
    {g \in SeqsUpTo(Stmts, MaxGenLen) :
        \A i \in 1..Len(g) : g[i].k = "raise" => i = Len(g)}

NoIter == [st |-> "none", pos |-> 0]

\* self.__gen(*args, **kwargs): a fresh generator object, nothing run yet.
NewIter == [st |-> "live", pos |-> 0]

\* next(self.__iter) on a Python generator object: run to the next yield; a
\* generator that returned or raised is finished and raises StopIteration from
\* then on.
GenNext(g, it) ==
    IF it.st = "live" /\ it.pos < Len(g)
    THEN IF g[it.pos + 1].k = "yield"
         THEN [r |-> "value", v |-> g[it.pos + 1].v,
               it |-> [st |-> "live", pos |-> it.pos + 1]]
         ELSE [r |-> "raise", v |-> 0, it |-> [st |-> "dead", pos |-> it.pos]]
    ELSE [r |-> "stop", v |-> 0, it |-> [st |-> "dead", pos |-> it.pos]]

\* if not (self.__empty or self.__iter): self.__iter = self.__gen(...)
Prologue(e, it) ==
    IF ~(e \/ it.st # "none") THEN NewIter ELSE it

\* Variant: the loop index skips a term.
C2_NextIndex_Skip(n) == n + 2

\* for n in count(): the index of the next round of the loop.
NextIndex(n) == n + 1

\* Variant: the cache is never looked at.
C1_Branch_NoCacheLookup(n, ch, e) ==
    IF e THEN "break" ELSE "advance"

\* Variant: the __empty flag is never looked at.
C3_Branch_NoEmptyCheck(n, ch, e) ==
    IF n < Len(ch) THEN "hit" ELSE "advance"

\* The if / elif / else of one round of the loop: the cache is looked at
\* first, then the __empty flag, and only then is the generator advanced.
Branch(n, ch, e) ==
    IF n < Len(ch) THEN "hit" ELSE IF e THEN "break" ELSE "advance"

\* self.__cache[n]
CacheAt(ch, n) == ch[n + 1]

\* Variant: any exception of the generator is taken for its end.
C4_AfterNext_RaiseSetsEmpty(r, ch, e) ==
    [cache |-> IF r.r = "value" THEN Append(ch, r.v) ELSE ch,
     empty |-> IF r.r \in {"stop", "raise"} THEN TRUE ELSE e]

\* What the except/else clauses of the try do with the outcome of
\* next(self.__iter): StopIteration sets __empty, a term is appended to the
\* cache, any other exception passes through untouched.
AfterNext(r, ch, e) ==
    [cache |-> IF r.r = "value" THEN Append(ch, r.v) ELSE ch,
     empty |-> IF r.r = "stop" THEN TRUE ELSE e]

MInit ==
    /\ gen \in GenFuncs
    /\ cache = <<>>
    /\ iter = NoIter
    /\ empty = FALSE
    /\ cursors = [c \in Cursors |-> [st |-> "none", n |-> 0]]
    /\ log = [c \in Cursors |-> <<>>]
    /\ outcome = [c \in Cursors |-> "none"]
    /\ adv = <<>>

\* g = gen(): calling the instance makes a generator object; no line of
\* __call__ runs before the first next().
Realize(c) ==
    /\ cursors[c].st = "none"
    /\ cursors' = [cursors EXCEPT ![c] = [st |-> "new", n |-> 0]]
    /\ UNCHANGED <<gen, cache, iter, empty, log, outcome, adv>>

\* next(g) on a realization that has not finished: the first call runs the
\* prologue and enters the loop at n = 0, a later one resumes after the yield
\* and goes round the loop once more.
Next1(c) ==
    /\ cursors[c].st \in {"new", "susp"}
    /\ LET first == cursors[c].st = "new"
           n     == IF first THEN 0 ELSE NextIndex(cursors[c].n)
           it0   == IF first THEN Prologue(empty, iter) ELSE iter
           br    == Branch(n, cache, empty)
       IN  IF br = "hit"
           THEN /\ cursors' = [cursors EXCEPT ![c] = [st |-> "susp", n |-> n]]
                /\ log' = [log EXCEPT ![c] =
                       Append(@, [n |-> n, v |-> CacheAt(cache, n), ex |-> empty])]
                /\ outcome' = [outcome EXCEPT ![c] = "value"]
                /\ iter' = it0
                /\ UNCHANGED <<gen, cache, empty, adv>>
           ELSE IF br = "break"
           THEN /\ cursors' = [cursors EXCEPT ![c] = [st |-> "done", n |-> n]]
                /\ outcome' = [outcome EXCEPT ![c] = "stop"]
                /\ iter' = it0
                /\ UNCHANGED <<gen, cache, empty, log, adv>>
           ELSE LET r  == GenNext(gen, it0)
                    m  == AfterNext(r, cache, empty)
                IN  /\ iter' = r.it
                    /\ cache' = m.cache
                    /\ empty' = m.empty
                    /\ adv' = Append(adv, [n |-> n, r |-> r.r, v |-> r.v, c |-> c])
                    /\ cursors' = [cursors EXCEPT ![c] =
                           [st |-> IF r.r = "value" THEN "susp" ELSE "done", n |-> n]]
                    /\ log' = [log EXCEPT ![c] =
                           IF r.r = "value"
                           THEN Append(@, [n |-> n, v |-> r.v, ex |-> FALSE]) ELSE @]
                    /\ outcome' = [outcome EXCEPT ![c] = r.r]
                    /\ gen' = gen

\* next(g) on a realization that has finished (by break or by an exception):
\* a finished generator object raises StopIteration and runs nothing.
NextDone(c) ==
    /\ cursors[c].st = "done"
    /\ outcome' = [outcome EXCEPT ![c] = "stop"]
    /\ UNCHANGED <<gen, cache, iter, empty, cursors, log, adv>>

MNext ==
    \E c \in Cursors : Realize(c) \/ Next1(c) \/ NextDone(c)

\* ------------------------------------------------------------------------
\* Fraction (fractions.Fraction as powerseries.py uses it): a pair
\* <<numerator, denominator>> in lowest terms with a positive denominator
\* ------------------------------------------------------------------------
Abs(x) == IF x < 0 THEN -x ELSE x

\* The greatest common divisor of a and b, by Euclid's algorithm
gcd[a \in Nat, b \in Nat] == IF b = 0 THEN a ELSE gcd[b, a % b]

GCD(a, b) == gcd[a, b]

\* n / d divided through by g, the denominator made positive
Lowest(n, d, g) ==
    IF d < 0 THEN <<(-n) \div g, (-d) \div g>> ELSE <<n \div g, d \div g>>

\* Fraction(n, d) for integers n and d # 0
lowest[n \in Int, d \in Int] == Lowest(n, d, GCD(Abs(n), Abs(d)))

Fraction(n, d) == lowest[n, d]

\* Fraction(0, 1) and Fraction(1, 1)
FZero == <<0, 1>>
FOne == <<1, 1>>
FAdd(a, b) == Fraction(a[1] * b[2] + b[1] * a[2], a[2] * b[2])
FMul(a, b) == Fraction(a[1] * b[1], a[2] * b[2])
FNeg(a) == Fraction(-a[1], a[2])
\* a / b for b # 0
FDiv(a, b) == Fraction(a[1] * b[2], a[2] * b[1])

\* ------------------------------------------------------------------------
\* Floating point as squareroot() uses it. A float is kept as the Fraction
\* it stands for; its mantissa has MantissaBits bits (53 in the interpreter's
\* doubles), and results are rounded to the nearest float, ties to even.
\* ------------------------------------------------------------------------
RECURSIVE IPow(_, _)
IPow(b, k) == IF k = 0 THEN 1 ELSE b * IPow(b, k - 1)

\* base^e as a Fraction, e any integer
FPow(base, e) ==
    IF e >= 0 THEN Fraction(IPow(base, e), 1) ELSE Fraction(1, IPow(base, -e))

FLess(a, b) == a[1] * b[2] < b[1] * a[2]

\* The exponent e with base^(MantissaBits-1) <= q / base^e < base^MantissaBits,
\* q > 0, searched from e.
RECURSIVE Exponent(_, _, _)
Exponent(q, base, e) ==
    IF FLess(q, FPow(base, e + MantissaBits - 1)) THEN Exponent(q, base, e - 1)
    ELSE IF FLess(q, FPow(base, e + MantissaBits)) THEN e
    ELSE Exponent(q, base, e + 1)

\* The integer nearest to r >= 0, the even one of two equally near
RoundHalfEven(r) ==
    IF 2 * (r[1] % r[2]) > r[2]
          \/ (2 * (r[1] % r[2]) = r[2] /\ (r[1] \div r[2]) % 2 = 1)
    THEN (r[1] \div r[2]) + 1
    ELSE r[1] \div r[2]

\* The float m * 2^e with m the mantissa of q at the exponent e
FloatAt(q, e) == FMul(Fraction(RoundHalfEven(FDiv(q, FPow(2, e))), 1), FPow(2, e))

\* float(q) for a Fraction q > 0: numerator / denominator, rounded
Float(q) == FloatAt(q, Exponent(q, 2, 0))

\* m is the mantissa nearest to the square root of r = N / D:
\* m - 1/2 < sqrt(r) < m + 1/2, or m is even and sqrt(r) is half way.
NearestRoot(m, r) ==
    \/ /\ (2 * m - 1) * (2 * m - 1) * r[2] < 4 * r[1]
       /\ 4 * r[1] < (2 * m + 1) * (2 * m + 1) * r[2]
    \/ /\ m % 2 = 0
       /\ 4 * r[1] \in {(2 * m - 1) * (2 * m - 1) * r[2],
                        (2 * m + 1) * (2 * m + 1) * r[2]}

\* The float m * 2^e nearest to the square root of x, for the e that puts
\* x / 4^e between 4^(MantissaBits-1) and 4^MantissaBits
SqrtAt(x, e) ==
    FMul(Fraction(CHOOSE m \in IPow(2, MantissaBits - 1) .. IPow(2, MantissaBits) :
                     NearestRoot(m, FDiv(x, FPow(4, e))), 1),
         FPow(2, e))

\* math.sqrt(x) for a float x > 0
Sqrt(x) == SqrtAt(x, Exponent(x, 4, 0))

\* Fraction.from_float(math.sqrt(q)) for a Fraction q > 0: math.sqrt takes
\* float(q); from_float gives the float's value exactly.
FSqrt(q) == Sqrt(Float(q))

\* ------------------------------------------------------------------------
\* PowerSeries (src/powerseries.py): the objects
\* ------------------------------------------------------------------------
\* The heap is a record: objs, the PowerSeries instances made so far (the
\* instance of index i is the i-th made); emptyId, the instance cached_class
\* keeps for PowerSeries() (0: none yet); eos, set when some iteration over a
\* series saw StopIteration; reent, set when the generator of some series was
\* resumed while it was running; err, set while an exception is propagating; exc,
\* the exception the last call raised ("" for none).

\* id(obj) of the i-th instance. CPython object addresses are far larger than
\* the coefficients and scalars the model draws.
IdBase == 1000
Id(i) == IdBase + i

\* A key of a memo dict (__As, __Ms): a Fraction, or an id. Python hashes and
\* compares the int id(x) and the Fraction of the same value as one key.
IdKey(i) == Fraction(Id(i), 1)

\* The generator function an instance is built on (self.__g), as a
\* description of the closure: which function it is and what it closes over.
\*   none  self.__g = None (the empty series)      l   _l over the list l
\*   f     _g over a term function: c = const of constseries (n = 0), or
\*         nseries (n = 1)                          n   _n of nthpower(n, c)
\*   h, t, x   _h, _t, _x over self = s            a   _a over self = s, other = o
\*   mc    _m of the Fraction branch: self = s, other = c
\*   m     _m of the PowerSeries branch: self = s, other = o
\*   r     _r over self = s (R is the instance itself)
\*   s     _s over self = s (S is the instance itself)
\*   d     _d over self = s                         i   _i of integral over
\*         self = s, const = c                     c   _c over self = s, other = o
\*   e     _e over self = s (E is the instance itself)
\*   lg    _l of logarithm over self = s
\*   v     _i of inverse over self = s (I is the instance itself)
G(k, s, o, c, l, n) == [k |-> k, s |-> s, o |-> o, c |-> c, l |-> l, n |-> n]

\* PowerSeries.__init__: the fields of a new instance; with it the memoized
\* generator that memoize_generator attaches to it (cache, empty, and of the
\* generator object of _gen: run, it is executing; dead, an exception went
\* through it and finished it; loc, the iterables the generator of __g holds
\* in its local variables once it has made them).
NewObj(g) ==
    [g |-> g, cache |-> <<>>, empty |-> FALSE, run |-> FALSE, dead |-> FALSE,
     loc |-> <<>>, zero |-> <<>>, head |-> 0, tail |-> 0, xmul |-> 0,
     R |-> 0, S |-> 0, As |-> <<>>, Ms |-> <<>>,
     D |-> 0, E |-> 0, I |-> 0, L |-> 0, Cs |-> <<>>, Is |-> <<>>]

EmptyHeap ==
    [objs |-> <<>>, emptyId |-> 0, eos |-> FALSE, reent |-> FALSE, err |-> FALSE,
     exc |-> ""]

Ret(h, v) == [h |-> h, v |-> v]

\* PowerSeries(g) through cached_class: the key is (g,), and g is a closure
\* made by the call that builds the series, so the key is new and so is the
\* instance.
New(h, g) ==
    Ret([h EXCEPT !.objs = Append(@, NewObj(g))], Len(h.objs) + 1)

\* PowerSeries() through cached_class: the key is (), one instance for all.
Empty(h) ==
    IF h.emptyId # 0 THEN Ret(h, h.emptyId)
    ELSE LET r == New(h, G("none", 0, 0, FZero, <<>>, 0))
         IN  Ret([r.h EXCEPT !.emptyId = r.v], r.v)

\* PowerSeries(l=list): the list is unhashable, a new instance every time;
\* an empty list is falsy, so the instance gets self.__g = None.
FromList(h, l) ==
    New(h, IF l = <<>> THEN G("none", 0, 0, FZero, <<>>, 0)
           ELSE G("l", 0, 0, FZero, l, 0))

\* constseries(c) (n = 0) and nseries() (n = 1): PowerSeries(f=lambda ...).
FromFunc(h, c, n) == New(h, G("f", 0, 0, c, <<>>, n))

\* nthpower(n, coeff)
nthpower(h, n, coeff) == New(h, G("n", 0, 0, coeff, <<>>, n))

\* cached_property head / tail / xmul: the function runs on the first access
\* and its result is stored on the instance.
head(h, s) ==
    IF h.objs[s].head # 0 THEN Ret(h, h.objs[s].head)
    ELSE LET r == New(h, G("h", s, 0, FZero, <<>>, 0))
         IN  Ret([r.h EXCEPT !.objs[s].head = r.v], r.v)

tail(h, s) ==
    IF h.objs[s].tail # 0 THEN Ret(h, h.objs[s].tail)
    ELSE LET r == New(h, G("t", s, 0, FZero, <<>>, 0))
         IN  Ret([r.h EXCEPT !.objs[s].tail = r.v], r.v)

xmul(h, s) ==
    IF h.objs[s].xmul # 0 THEN Ret(h, h.objs[s].xmul)
    ELSE LET r == New(h, G("x", s, 0, FZero, <<>>, 0))
         IN  Ret([r.h EXCEPT !.objs[s].xmul = r.v], r.v)

\* The part of __add__ after other has been made a series: look oid up in
\* self.__As, else build PowerSeries(_a) and store it.
AddKeyed(h, s, oid, other) ==
    IF oid \in DOMAIN h.objs[s].As THEN Ret(h, h.objs[s].As[oid])
    ELSE LET r == New(h, G("a", s, other, FZero, <<>>, 0))
         IN  Ret([r.h EXCEPT !.objs[s].As = (oid :> r.v) @@ @], r.v)

\* self + other, other a PowerSeries (also other + self: __radd__ = __add__).
add(h, s, other) == AddKeyed(h, s, IdKey(other), other)

\* self + c, c a Fraction (also c + self): c is lifted to nthpower(0, c);
\* oid = oid or id(other) keeps c as the key unless c is 0, which is falsy.
addF(h, s, c) ==
    LET o == nthpower(h, 0, c)
    IN  AddKeyed(o.h, s, IF c # FZero THEN c ELSE IdKey(o.v), o.v)

\* Variant: no fast path, a product series is built for 0 and for 1 too.
C8_mulF_NoFastPath(h, s, c) ==
    IF c \in DOMAIN h.objs[s].Ms THEN Ret(h, h.objs[s].Ms[c])
    ELSE LET r == New(h, G("mc", s, 0, c, <<>>, 0))
         IN  Ret([r.h EXCEPT !.objs[s].Ms = (c :> r.v) @@ @], r.v)

\* self * c, c a Fraction (also c * self: __rmul__ = __mul__).
mulF(h, s, c) ==
    IF c = FOne THEN Ret(h, s)
    ELSE IF c = FZero THEN Empty(h)
    ELSE IF c \in DOMAIN h.objs[s].Ms THEN Ret(h, h.objs[s].Ms[c])
    ELSE LET r == New(h, G("mc", s, 0, c, <<>>, 0))
         IN  Ret([r.h EXCEPT !.objs[s].Ms = (c :> r.v) @@ @], r.v)

\* self * other, other a PowerSeries.
mul(h, s, other) ==
    LET oid == IdKey(other)
    IN  IF oid \in DOMAIN h.objs[s].Ms THEN Ret(h, h.objs[s].Ms[oid])
        ELSE LET r == New(h, G("m", s, other, FZero, <<>>, 0))
             IN  Ret([r.h EXCEPT !.objs[s].Ms = (oid :> r.v) @@ @], r.v)

\* - self: Fraction(-1, 1) * self
neg(h, s) == mulF(h, s, Fraction(-1, 1))

\* self + r for the series r a call returned
PlusOf(s, r) == add(r.h, s, r.v)

\* self - other, other a PowerSeries: self + (- other)
sub(h, s, other) == PlusOf(s, neg(h, other))

\* derivative(): PowerSeries(_d), kept in __D
derivative(h, s) ==
    IF h.objs[s].D # 0 THEN Ret(h, h.objs[s].D)
    ELSE LET r == New(h, G("d", s, 0, FZero, <<>>, 0))
         IN  Ret([r.h EXCEPT !.objs[s].D = r.v], r.v)

\* integral(const): PowerSeries(_i), kept in __Is under const
integral(h, s, const) ==
    IF const \in DOMAIN h.objs[s].Is THEN Ret(h, h.objs[s].Is[const])
    ELSE LET r == New(h, G("i", s, 0, const, <<>>, 0))
         IN  Ret([r.h EXCEPT !.objs[s].Is = (const :> r.v) @@ @], r.v)

\* r.integral(const) for the series r a call returned, unless it raised
IntegralOf(r, const) == IF r.h.err THEN r ELSE integral(r.h, r.v, const)

\* ------------------------------------------------------------------------
\* PowerSeries: reading coefficients
\* ------------------------------------------------------------------------
\* One step of a generator: a term, or its end.
Term(h, v) == [h |-> h, r |-> "value", v |-> v]
Stop(h) == [h |-> h, r |-> "stop", v |-> FZero]

\* An exception leaves the generator.
Raise(h, e) ==
    [h |-> [h EXCEPT !.err = TRUE, !.exc = e], r |-> "raise", v |-> FZero]

\* What a function returns when it ends without a return statement.
None == <<0, 0>>

\* other * term with other a Fraction; sum(terms) one term at a time
Scale(t, c) == [t EXCEPT !.v = FMul(c, @)]

RECURSIVE Read(_, _, _), SumReads(_, _, _, _), zero(_, _), Inner(_, _, _),
          reciprocal(_, _), div(_, _, _)

\* for terms in izip(*ids) (longest = FALSE) or izip_longest(*ids,
\* fillvalue=0) (longest = TRUE), ids at most three iterables all at index n:
\* one next() on each in order, and sum(terms). izip ends with the first
\* iterable that ends, izip_longest when all have ended.
SumReads(h, ids, n, longest) ==
    LET a == Read(h, ids[1], n)
        b == IF Len(ids) >= 2 THEN Read(a.h, ids[2], n) ELSE a
        c == IF Len(ids) >= 3 THEN Read(b.h, ids[3], n) ELSE b
    IN  CASE a.h.err -> a
          [] ~longest /\ a.r = "stop" -> a
          [] b.h.err -> b
          [] ~longest /\ b.r = "stop" -> b
          [] c.h.err -> c
          [] ~longest /\ c.r = "stop" -> c
          [] longest /\ a.r = "stop" /\ b.r = "stop" /\ c.r = "stop" -> c
          [] OTHER ->
                Term(c.h, FAdd(FAdd(a.v, IF Len(ids) >= 2 THEN b.v ELSE FZero),
                               IF Len(ids) >= 3 THEN c.v ELSE FZero))

\* _l of __init__: for t in l: yield t
Gen_l(h, i, n) ==
    IF n < Len(h.objs[i].g.l) THEN Term(h, h.objs[i].g.l[n + 1]) ELSE Stop(h)

\* _g of __init__: for n in count(): yield f(n), with f the lambda of
\* constseries (const) or of nseries (Fraction(n, 1))
Gen_f(h, i, n) ==
    Term(h, IF h.objs[i].g.n = 0 THEN h.objs[i].g.c ELSE Fraction(n, 1))

\* _n of nthpower: n zeros, then coeff
Gen_n(h, i, n) ==
    CASE n < h.objs[i].g.n -> Term(h, FZero)
      [] n = h.objs[i].g.n -> Term(h, h.objs[i].g.c)
      [] OTHER             -> Stop(h)

\* _h of head: yield self.zero
Gen_h(h, i, n) ==
    IF n = 0 THEN zero(h, h.objs[i].g.s) ELSE Stop(h)

\* Variant: the tail does not skip the zeroth term.
C6_Gen_t_NoSkip(h, i, n) == Read(h, h.objs[i].g.s, n)

\* _t of tail: for term in islice(self, 1, None): yield term
Gen_t(h, i, n) == Read(h, h.objs[i].g.s, n + 1)

\* _x of xmul: yield 0, then the terms of self
Gen_x(h, i, n) ==
    IF n = 0 THEN Term(h, FZero) ELSE Read(h, h.objs[i].g.s, n - 1)

\* Variant: the terms of other are left out of the sum.
C7_Gen_a_SelfOnly(h, i, n) == SumReads(h, <<h.objs[i].g.s>>, n, TRUE)

\* _a of __add__: for terms in izip_longest(self, other, fillvalue=0):
\* yield sum(terms)
Gen_a(h, i, n) == SumReads(h, <<h.objs[i].g.s, h.objs[i].g.o>>, n, TRUE)

\* _m of __mul__, Fraction branch: for term in self: yield other * term
Gen_mc(h, i, n) == Scale(Read(h, h.objs[i].g.s, n), h.objs[i].g.c)

\* The iterables a generator made are kept in its frame.
SetLoc(h, i, ids) == [h EXCEPT !.objs[i].loc = ids]

\* The first next() on the iterables in the frame: izip(*mterms), sum(terms)
SumFirst(h, i) == SumReads(h, h.objs[i].loc, 0, FALSE)

\* The first next() on the one iterable in the frame.
ReadFirst(h, i) == Read(h, h.objs[i].loc[1], 0)

\* r.xmul for the series a call returned
XmulOf(r) == xmul(r.h, r.v)

\* mterms, given F, G, X = (F * G).xmul, A = f0 * G and B = g0 * F (0 for a
\* product that is left out).
MTermsB(X, A, B, i) ==
    SetLoc(B.h, i, <<X.v>> \o (IF A.v # 0 THEN <<A.v>> ELSE <<>>)
                           \o (IF B.v # 0 THEN <<B.v>> ELSE <<>>))

\* if g0 != 0: mterms.append(g0 * F)
MTermsA(F, X, A, i, g0) ==
    MTermsB(X, A, IF g0 # FZero THEN mulF(A.h, F.v, g0) ELSE Ret(A.h, 0), i)

\* if f0 != 0: mterms.append(f0 * G)
MTermsX(F, GG, X, i, f0, g0) ==
    MTermsA(F, X, IF f0 # FZero THEN mulF(X.h, GG.v, f0) ELSE Ret(X.h, 0), i, g0)

\* mterms = [(F * G).xmul]
MTermsG(F, GG, i, f0, g0) ==
    MTermsX(F, GG, XmulOf(mul(GG.h, F.v, GG.v)), i, f0, g0)

\* G = other.tail
MTermsF(F, i, f0, g0) ==
    MTermsG(F, tail(F.h, F.h.objs[i].g.o), i, f0, g0)

\* Variant: g0 * F is left out of mterms whatever g0 is.
C9_MTerms_NoG0F(h, i, f0, g0) ==
    MTermsF(tail(h, h.objs[i].g.s), i, f0, FZero)

\* The second resumption of _m, PowerSeries branch: F = self.tail, G, the
\* product of the tails times x and the two scaled tails make mterms.
MTerms(h, i, f0, g0) ==
    MTermsF(tail(h, h.objs[i].g.s), i, f0, g0)

\* _m after f0 = self.zero and g0 = other.zero: yield f0 * g0, then mterms
Gen_m_g0(f0, g0, i, n) ==
    CASE g0.h.err  -> g0
      [] f0.v = None \/ g0.v = None -> Raise(g0.h, "TypeError")
      [] n = 0     -> Term(g0.h, FMul(f0.v, g0.v))
      [] OTHER     -> SumFirst(MTerms(g0.h, i, f0.v, g0.v), i)

\* _m after f0 = self.zero
Gen_m_f0(f0, i, n) ==
    IF f0.h.err THEN f0
    ELSE Gen_m_g0(f0, zero(f0.h, f0.h.objs[i].g.o), i, n)

\* _m of __mul__, PowerSeries branch. The first resumption yields f0 * g0;
\* the second builds mterms and from then on each resumption yields the sum
\* of the next terms of the series in mterms.
Gen_m(h, i, n) ==
    IF n >= 2 THEN SumReads(h, h.objs[i].loc, n - 1, FALSE)
    ELSE Gen_m_f0(zero(h, h.objs[i].g.s), i, n)

\* c * P for the product a call returned
ScaleOf(P, c) == mulF(P.h, P.v, c)

\* c * (T * R), T = self.tail
RTermsT(T, i, c) == ScaleOf(mul(T.h, T.v, i), c)

\* Variant: the terms after the first are those of recip * (self.tail * R).
C10_RTerms_NoNeg(h, i, recip) ==
    RTermsT(tail(h, h.objs[i].g.s), i, recip)

\* The second resumption of _r makes (- recip) * (self.tail * R).
RTerms(h, i, recip) ==
    RTermsT(tail(h, h.objs[i].g.s), i, FNeg(recip))

\* A series a call returned is the one iterable of the frame.
KeepLoc(r, i) == SetLoc(r.h, i, <<r.v>>)

\* Variant: the first term of the product is read before recip is yielded.
C23_Gen_r_z_Eager(z, i, n) ==
    CASE z.h.err  -> z
      [] z.v = None -> Raise(z.h, "TypeError")
      [] OTHER    -> ReadFirst(KeepLoc(RTerms(z.h, i, FDiv(FOne, z.v)), i), i)

\* _r after self.zero has been read
Gen_r_z(z, i, n) ==
    CASE z.h.err  -> z
      [] z.v = None -> Raise(z.h, "TypeError")
      [] n = 0    -> Term(z.h, FDiv(FOne, z.v))
      [] OTHER    -> ReadFirst(KeepLoc(RTerms(z.h, i, FDiv(FOne, z.v)), i), i)

\* _r of reciprocal: yield recip = 1 / self.zero, then the terms of
\* (- recip) * (self.tail * R)
Gen_r(h, i, n) ==
    IF n >= 2 THEN Read(h, h.objs[i].loc[1], n - 1)
    ELSE Gen_r_z(zero(h, h.objs[i].g.s), i, n)

\* c * R for R the series a call returned, unless it raised
ScaledR(R, c) == IF R.h.err THEN R ELSE mulF(R.h, R.v, c)

\* self.tail * R for R the series a call returned, unless it raised
TimesR(T, R) == IF R.h.err THEN R ELSE mul(R.h, T.v, R.v)

\* (s0 + S).reciprocal() for the sum a call returned
ReciprocalOf(A) == reciprocal(A.h, A.v)

\* T * S.reciprocal(), the first term s0 not added
C16_STermsT_NoS0(T, i, s0) == TimesR(T, ReciprocalOf(Ret(T.h, i)))

\* T * (s0 + S).reciprocal(), T = self.tail
STermsT(T, i, s0) == TimesR(T, ReciprocalOf(addF(T.h, i, s0)))

\* The second resumption of _s makes self.tail * (s0 + S).reciprocal();
\* reciprocal() may raise.
STerms(h, i, s0) == STermsT(tail(h, h.objs[i].g.s), i, s0)

\* for term in the product, unless making it raised
Gen_s_terms(hs, i) ==
    IF hs.err THEN Raise(hs, hs.exc) ELSE ReadFirst(hs, i)

\* _s after self.zero has been read
Gen_s_z(z, i, n) ==
    CASE z.h.err    -> z
      [] z.v = None -> Raise(z.h, "TypeError")
      [] z.v[1] < 0 -> Raise(z.h, "ValueError")
      [] n = 0      -> Term(z.h, FSqrt(z.v))
      [] OTHER      -> Gen_s_terms(KeepLoc(STerms(z.h, i, FSqrt(z.v)), i), i)

\* _s of squareroot: s0 = Fraction.from_float(math.sqrt(self.zero)), where
\* math.sqrt raises ValueError below 0; yield s0, then the terms of
\* self.tail * (s0 + S).reciprocal()
Gen_s(h, i, n) ==
    IF n >= 2 THEN Read(h, h.objs[i].loc[1], n - 1)
    ELSE Gen_s_z(zero(h, h.objs[i].g.s), i, n)

\* The terms of self.tail as they are, without the factor n + 1
C13_Gen_d_NoFactor(h, i, n) ==
    IF n = 0 THEN ReadFirst(KeepLoc(tail(h, h.objs[i].g.s), i), i)
    ELSE Read(h, h.objs[i].loc[1], n)

\* _d of derivative: for n, term in enumerate(self.tail):
\* yield Fraction(n + 1, 1) * term
Gen_d(h, i, n) ==
    Scale(IF n = 0 THEN ReadFirst(KeepLoc(tail(h, h.objs[i].g.s), i), i)
          ELSE Read(h, h.objs[i].loc[1], n),
          Fraction(n + 1, 1))

\* _i of integral: yield const, then for n, term in enumerate(self):
\* yield Fraction(1, n + 1) * term
Gen_i(h, i, n) ==
    IF n = 0 THEN Term(h, h.objs[i].g.c)
    ELSE Scale(Read(h, h.objs[i].g.s, n - 1), Fraction(1, n))

\* compose(other) after other.zero has been read: ValueError unless it is 0,
\* else PowerSeries(_c), kept in __Cs under id(other).
Composed(z, s, other) ==
    LET r == New(z.h, G("c", s, other, FZero, <<>>, 0))
    IN  CASE z.h.err     -> Ret(z.h, 0)
          [] z.v # FZero -> Ret(Raise(z.h, "ValueError").h, 0)
          [] OTHER       ->
                Ret([r.h EXCEPT !.objs[s].Cs = (IdKey(other) :> r.v) @@ @], r.v)

\* self.compose(other), self(other): the look-up in __Cs comes first.
compose(h, s, other) ==
    IF IdKey(other) \in DOMAIN h.objs[s].Cs
    THEN Ret(h, h.objs[s].Cs[IdKey(other)])
    ELSE Composed(zero(h, other), s, other)

\* r(other) for the series r a call returned
ComposeOf(r, other) == compose(r.h, r.v, other)

\* self.tail(other) alone, without the factor other.tail
C12_CTermsOT_NoFactor(OT, s, other) == ComposeOf(tail(OT.h, s), other)

\* other.tail * self.tail(other), OT = other.tail
CTermsOT(OT, s, other) == TimesR(OT, ComposeOf(tail(OT.h, s), other))

\* The second resumption of _c makes other.tail * self.tail(other).
CTerms(h, i) ==
    CTermsOT(tail(h, h.objs[i].g.o), h.objs[i].g.s, h.objs[i].g.o)

\* _c of compose: yield self.zero, then the terms of
\* other.tail * self.tail(other)
Gen_c(h, i, n) ==
    CASE n = 0 -> zero(h, h.objs[i].g.s)
      [] n = 1 -> Gen_s_terms(KeepLoc(CTerms(h, i), i), i)
      [] OTHER -> Read(h, h.objs[i].loc[1], n - 1)

\* E * D for the derivative D a call returned
TimesOf(e, D) == mul(D.h, e, D.v)

\* (E * self.derivative()).integral(0): the constant of integration lost
C14_ETerms_NoConstant(h, i) ==
    IntegralOf(TimesOf(i, derivative(h, h.objs[i].g.s)), FZero)

\* The first resumption of _e makes (E * self.derivative()).integral(1).
ETerms(h, i) ==
    IntegralOf(TimesOf(i, derivative(h, h.objs[i].g.s)), FOne)

\* _e of exponential: the terms of (E * self.derivative()).integral(1)
Gen_e(h, i, n) ==
    IF n = 0 THEN Gen_s_terms(KeepLoc(ETerms(h, i), i), i)
    ELSE Read(h, h.objs[i].loc[1], n)

\* D / A for the sum A a call returned
OverOf(D, A) == div(A.h, D.v, A.v)

\* D / (Fraction(1, 1) + self), D = self.derivative()
LTermsD(D, s) == OverOf(D, addF(D.h, s, FOne))

\* The first resumption of _l makes
\* (self.derivative() / (Fraction(1, 1) + self)).integral().
LTerms(h, i) ==
    IntegralOf(LTermsD(derivative(h, h.objs[i].g.s), h.objs[i].g.s), FZero)

\* _l of logarithm: the terms of that integral
Gen_lg(h, i, n) ==
    IF n = 0 THEN Gen_s_terms(KeepLoc(LTerms(h, i), i), i)
    ELSE Read(h, h.objs[i].loc[1], n)

\* F.zero itself in place of its reciprocal
C15_Recip_v_NoReciprocal(z) ==
    CASE z.h.err    -> z
      [] z.v = None -> Raise(z.h, "TypeError")
      [] z.v = FZero -> Raise(z.h, "ZeroDivisionError")
      [] OTHER      -> Term(z.h, z.v)

\* recip = Fraction(1, 1) / F.zero for F = self.tail; yield recip
Recip_v(z) ==
    CASE z.h.err    -> z
      [] z.v = None -> Raise(z.h, "TypeError")
      [] z.v = FZero -> Raise(z.h, "ZeroDivisionError")
      [] OTHER      -> Term(z.h, FDiv(FOne, z.v))

\* F.zero for the tail F a call returned
ZeroOf(F) == zero(F.h, F.v)

\* (T * T) * F.tail(I), TT = T * T
VTermsTT(TT, F, i) == TimesR(TT, ComposeOf(tail(TT.h, F.v), i))

\* T = I.tail
VTermsT(T, F, i) == VTermsTT(mul(T.h, T.v, T.v), F, i)

\* F = self.tail, already made by the second resumption
VTermsF(F, i) == VTermsT(tail(F.h, i), F, i)

\* The third resumption of _i makes (- recip) * ((T * T) * F.tail(I)), with
\* F and recip as the second resumption left them in the frame (self.tail
\* and F.zero are cached properties: reading them again gives the same).
VTerms(h, i, recip) ==
    ScaledR(VTermsF(tail(h, h.objs[i].g.s), i), FNeg(recip))

\* _i after recip has been made
Gen_v_terms(r, i) ==
    IF r.h.err THEN r ELSE Gen_s_terms(KeepLoc(VTerms(r.h, i, r.v), i), i)

\* _i of inverse: yield 0, yield recip, then the terms of
\* (- recip) * ((T * T) * F.tail(I))
Gen_v(h, i, n) ==
    CASE n = 0 -> Term(h, FZero)
      [] n = 1 -> Recip_v(ZeroOf(tail(h, h.objs[i].g.s)))
      [] n = 2 -> Gen_v_terms(Recip_v(ZeroOf(tail(h, h.objs[i].g.s))), i)
      [] OTHER -> Read(h, h.objs[i].loc[1], n - 2)

\* self.__g(): the n-th resumption of the generator the instance was built
\* on; an instance without one (self.__g is None) has no term.
Inner(h, i, n) ==
    CASE h.objs[i].g.k = "none" -> Stop(h)
      [] h.objs[i].g.k = "l"    -> Gen_l(h, i, n)
      [] h.objs[i].g.k = "f"    -> Gen_f(h, i, n)
      [] h.objs[i].g.k = "n"    -> Gen_n(h, i, n)
      [] h.objs[i].g.k = "h"    -> Gen_h(h, i, n)
      [] h.objs[i].g.k = "t"    -> Gen_t(h, i, n)
      [] h.objs[i].g.k = "x"    -> Gen_x(h, i, n)
      [] h.objs[i].g.k = "a"    -> Gen_a(h, i, n)
      [] h.objs[i].g.k = "mc"   -> Gen_mc(h, i, n)
      [] h.objs[i].g.k = "m"    -> Gen_m(h, i, n)
      [] h.objs[i].g.k = "r"    -> Gen_r(h, i, n)
      [] h.objs[i].g.k = "s"    -> Gen_s(h, i, n)
      [] h.objs[i].g.k = "d"    -> Gen_d(h, i, n)
      [] h.objs[i].g.k = "i"    -> Gen_i(h, i, n)
      [] h.objs[i].g.k = "c"    -> Gen_c(h, i, n)
      [] h.objs[i].g.k = "e"    -> Gen_e(h, i, n)
      [] h.objs[i].g.k = "lg"   -> Gen_lg(h, i, n)
      [] h.objs[i].g.k = "v"    -> Gen_v(h, i, n)

\* PowerSeries._gen, given the outcome t of one more step of self.__g():
\* its term if there is one, else Fraction(0, 1), for ever.
Gen(t) ==
    IF t.r = "value" THEN t ELSE Term(t.h, FZero)

\* The try / except / else around next(self.__iter) for the memoized _gen of
\* series i, whose generator has just given t.
Store(t, i) ==
    LET m == AfterNext(t, t.h.objs[i].cache, t.h.objs[i].empty)
    IN  [t.h EXCEPT !.objs[i].cache = m.cache,
                    !.objs[i].empty = m.empty,
                    !.objs[i].run = FALSE]

\* term = next(self.__iter) gave t: an exception goes to the caller, anything
\* else is stored and the loop goes round.
Advance(t, i, n) ==
    IF t.h.err THEN t ELSE Read(Store(Gen(t), i), i, n)

\* The n-th next() of an iteration over series i (for term in self), whose
\* realization of the memoized _gen has read 0..n-1:
\* MemoizedGenerator.__call__ round by round from the terms the cache holds
\* up to index n. Resuming the generator of _gen while it runs raises
\* ValueError; one that an exception has finished raises StopIteration.
Read(h, i, n) ==
    LET o == h.objs[i]
    IN  CASE h.err -> Raise(h, h.exc)
          [] Branch(n, o.cache, o.empty) = "hit" -> Term(h, CacheAt(o.cache, n))
          [] Branch(Len(o.cache), o.cache, o.empty) = "break" ->
                Stop([h EXCEPT !.eos = TRUE])
          [] o.run -> Raise([h EXCEPT !.reent = TRUE], "ValueError")
          [] o.dead -> Read(Store(Stop(h), i), i, n)
          [] OTHER ->
                Advance(Inner([h EXCEPT !.objs[i].run = TRUE], i, Len(o.cache)),
                        i, n)

\* cached_property zero: for term in self: return term
SetZero(t, s) ==
    CASE t.h.err    -> t
      [] t.r = "stop" -> Term([t.h EXCEPT !.objs[s].zero = <<None>>], None)
      [] OTHER      -> [t EXCEPT !.h.objs[s].zero = <<t.v>>]

zero(h, s) ==
    IF h.objs[s].zero # <<>> THEN Term(h, h.objs[s].zero[1])
    ELSE SetZero(Read(h, s, 0), s)

\* reciprocal() and squareroot() after self.zero has been read: ValueError
\* when it is 0, else PowerSeries(_r) or PowerSeries(_s), kept in __R or __S.
C30_Derived_StoreFirst(z, s, k) ==
    LET r == New(z.h, G(k, s, 0, FZero, <<>>, 0))
    IN  CASE z.h.err     -> Ret(z.h, 0)
          [] z.v = FZero -> Ret(Raise([r.h EXCEPT !.objs[s].R = r.v], "ValueError").h, 0)
          [] k = "r"     -> Ret([r.h EXCEPT !.objs[s].R = r.v], r.v)
          [] OTHER       -> Ret([r.h EXCEPT !.objs[s].S = r.v], r.v)

Derived(z, s, k) ==
    LET r == New(z.h, G(k, s, 0, FZero, <<>>, 0))
    IN  CASE z.h.err     -> Ret(z.h, 0)
          [] z.v = FZero -> Ret(Raise(z.h, "ValueError").h, 0)
          [] k = "r"     -> Ret([r.h EXCEPT !.objs[s].R = r.v], r.v)
          [] OTHER       -> Ret([r.h EXCEPT !.objs[s].S = r.v], r.v)

\* reciprocal()
reciprocal(h, s) ==
    IF h.objs[s].R # 0 THEN Ret(h, h.objs[s].R)
    ELSE Derived(zero(h, s), s, "r")

\* self / other, other a PowerSeries: self * other.reciprocal()
div(h, s, other) == TimesR(Ret(h, s), reciprocal(h, other))

\* c / self, c a Fraction (__rdiv__): other * self.reciprocal()
rdiv(h, s, c) == ScaledR(reciprocal(h, s), c)

\* squareroot()
squareroot(h, s) ==
    IF h.objs[s].S # 0 THEN Ret(h, h.objs[s].S)
    ELSE Derived(zero(h, s), s, "s")

\* exponential() and logarithm() after self.zero has been read: ValueError
\* unless it is 0, else PowerSeries(_e) or PowerSeries(_l), kept in __E or
\* __L.
DerivedAtZero(z, s, k) ==
    LET r == New(z.h, G(k, s, 0, FZero, <<>>, 0))
    IN  CASE z.h.err     -> Ret(z.h, 0)
          [] z.v # FZero -> Ret(Raise(z.h, "ValueError").h, 0)
          [] k = "e"     -> Ret([r.h EXCEPT !.objs[s].E = r.v], r.v)
          [] OTHER       -> Ret([r.h EXCEPT !.objs[s].L = r.v], r.v)

\* exponential()
exponential(h, s) ==
    IF h.objs[s].E # 0 THEN Ret(h, h.objs[s].E)
    ELSE DerivedAtZero(zero(h, s), s, "e")

\* logarithm()
logarithm(h, s) ==
    IF h.objs[s].L # 0 THEN Ret(h, h.objs[s].L)
    ELSE DerivedAtZero(zero(h, s), s, "lg")

\* inverse() after self.tail.zero has been read: ValueError when it is 0,
\* else PowerSeries(_i), kept in __I.
Inverse_tz(tz, s) ==
    LET r == New(tz.h, G("v", s, 0, FZero, <<>>, 0))
    IN  CASE tz.h.err     -> Ret(tz.h, 0)
          [] tz.v = FZero -> Ret(Raise(tz.h, "ValueError").h, 0)
          [] OTHER        -> Ret([r.h EXCEPT !.objs[s].I = r.v], r.v)

\* inverse() after self.zero has been read: ValueError unless it is 0
Inverse_z(z, s) ==
    CASE z.h.err     -> Ret(z.h, 0)
      [] z.v # FZero -> Ret(Raise(z.h, "ValueError").h, 0)
      [] OTHER       -> Inverse_tz(ZeroOf(tail(z.h, s)), s)

\* inverse()
inverse(h, s) ==
    IF h.objs[s].I # 0 THEN Ret(h, h.objs[s].I)
    ELSE Inverse_z(zero(h, s), s)

Prefix(ch, k) == IF Len(ch) <= k THEN ch ELSE SubSeq(ch, 1, k)

\* list(islice(self, k)) for series i: the terms an iteration gives, k of
\* them unless it ends before.
Take(h, i, k) == Prefix(Read(h, i, k - 1).h.objs[i].cache, k)

\* An exception that reaches the caller has gone through every generator that
\* was running and finished it.
Unwind(h) ==
    [h EXCEPT !.err = FALSE, !.exc = "",
              !.objs = [k \in DOMAIN h.objs |->
                           [h.objs[k] EXCEPT !.dead = (h.objs[k].dead \/ h.objs[k].run),
                                             !.run = FALSE]]]

\* ------------------------------------------------------------------------
\* PowerSeries: comparison
\* ------------------------------------------------------------------------
RECURSIVE eq_from(_, _, _, _, _)

\* Variant: the terms of a pair are not compared.
C18_eq_other_NoCompare(b, v, s, other, n, k) ==
    CASE b.h.err    -> Ret(b.h, FALSE)
      [] b.r = "stop" -> Ret(b.h, TRUE)
      [] OTHER      -> eq_from(b.h, s, other, n + 1, k)

\* izip has taken the term v from self and then asks other, which gives b:
\* izip ends when other has ended; all() ends at the first pair that differs.
eq_other(b, v, s, other, n, k) ==
    CASE b.h.err    -> Ret(b.h, FALSE)
      [] b.r = "stop" -> Ret(b.h, TRUE)
      [] b.v # v    -> Ret(b.h, FALSE)
      [] OTHER      -> eq_from(b.h, s, other, n + 1, k)

\* izip asks self first, which gives a.
eq_self(a, s, other, n, k) ==
    CASE a.h.err    -> Ret(a.h, FALSE)
      [] a.r = "stop" -> Ret(a.h, TRUE)
      [] OTHER      -> eq_other(Read(a.h, other, n), a.v, s, other, n, k)

\* islice(izip(self, other), k) from the pair n on: it asks for no pair
\* after the k-th.
eq_from(h, s, other, n, k) ==
    IF n >= k THEN Ret(h, TRUE) ELSE eq_self(Read(h, s, n), s, other, n, k)

\* self == other, other a PowerSeries, k = self.testlimit:
\* all(s == o for s, o in islice(izip(self, other), self.testlimit))
eq(h, s, other, k) == eq_from(h, s, other, 0, k)

\* not r
Not(r) == [r EXCEPT !.v = ~@]

\* self != other: not self == other
ne(h, s, other, k) == Not(eq(h, s, other, k))

\* ------------------------------------------------------------------------
\* PowerSeries: a caller that makes a series, may read it, and applies one
\* operation to it, reading the first TestLimit terms of the result
\* ------------------------------------------------------------------------
VARIABLES
    heap,       \* the PowerSeries instances and their fields
    pc,         \* "init": the series is made; "done": the operation is applied
    opn,        \* the last call made
    argc,       \* its Fraction argument (FZero when it has none)
    argb,       \* its PowerSeries argument (0 when it has none)
    res,        \* the instance it returned (0: it raised)
    exn,        \* the exception the call, or the iteration over res, raised
    out,        \* the terms islice(res, TestLimit) gave
    ina,        \* the first TestLimit + 1 terms of the series itself
    inb,        \* the first TestLimit + 1 terms of the PowerSeries argument
    verdict     \* what the last == or != returned

avars == <<heap, pc, opn, argc, argb, res, exn, out, ina, inb, verdict>>

\* The series the caller starts from is instance 1.
Self == 1

Coefs == {FZero, FOne, Fraction(-2, 1)}
Scalars == {FZero, FOne, Fraction(-1, 1), Fraction(2, 1), Fraction(1, 2)}

\* The ways the caller makes a series: PowerSeries(), PowerSeries(l=...),
\* constseries(1), nseries(), nthpower(0) (ONE), nthpower(1) (X), and two
\* series with a first term above 1: nthpower(0, Fraction(2, 1)) and
\* PowerSeries(l=[Fraction(4, 1), Fraction(1, 1)]).
BaseG ==
    {G("none", 0, 0, FZero, <<>>, 0)}
        \cup {G("l", 0, 0, FZero, l, 0) : l \in SeqsUpTo(Coefs, MaxLen)}
        \cup {G("f", 0, 0, FOne, <<>>, 0), G("f", 0, 0, FZero, <<>>, 1)}
        \cup {G("n", 0, 0, FOne, <<>>, 0), G("n", 0, 0, FOne, <<>>, 1)}
        \cup {G("n", 0, 0, Fraction(2, 1), <<>>, 0),
              G("l", 0, 0, FZero, <<Fraction(4, 1), FOne>>, 0)}

\* A second operand: one more series made the same way, or the series itself.
OtherG == BaseG \cup {G("self", 0, 0, FZero, <<>>, 0)}

Build(h, g) ==
    CASE g.k = "none" -> Empty(h)
      [] g.k = "l"    -> FromList(h, g.l)
      [] g.k = "f"    -> FromFunc(h, g.c, g.n)
      [] g.k = "n"    -> nthpower(h, g.n, g.c)
      [] g.k = "self" -> Ret(h, Self)

AInit ==
    /\ \E g \in BaseG : heap = Build(EmptyHeap, g).h
    /\ pc = "init"
    /\ opn = "new"
    /\ argc = FZero
    /\ argb = 0
    /\ res = Self
    /\ exn = ""
    /\ out = <<>>
    /\ ina = <<>>
    /\ inb = <<>>
    /\ verdict = FALSE

\* The first TestLimit + 1 terms of the series itself and of the PowerSeries
\* argument b (none when b = 0), read from the heap h
Operands(h, b) ==
    [j \in 1..2 |->
        IF j = 2 /\ b = 0 THEN <<>>
        ELSE Take(h, IF j = 1 THEN Self ELSE b, TestLimit + 1)]

\* What the caller sees of a call that returned r = (heap, instance) or
\* raised, and of reading the first TestLimit terms of the result, which
\* leaves the heap hr; with them, the terms of the operands.
Observed(name, c, b, r, hr, ops) ==
    /\ opn' = name /\ argc' = c /\ argb' = b /\ verdict' = FALSE
    /\ IF r.h.err
       THEN /\ heap' = Unwind(r.h)
            /\ res' = 0 /\ exn' = r.h.exc
            /\ out' = <<>> /\ ina' = <<>> /\ inb' = <<>>
       ELSE IF hr.err
       THEN /\ heap' = Unwind(hr)
            /\ res' = r.v /\ exn' = hr.exc
            /\ out' = <<>> /\ ina' = <<>> /\ inb' = <<>>
       ELSE /\ heap' = hr
            /\ res' = r.v /\ exn' = ""
            /\ out' = Prefix(hr.objs[r.v].cache, TestLimit)
            /\ ina' = ops[1]
            /\ inb' = ops[2]

\* The terms of the operands after the call
ObservedAt(name, c, b, r, hr) ==
    Observed(name, c, b, r, hr, Operands(hr, b))

\* islice(r, testlimit) after the call
Observe(name, c, b, r) ==
    ObservedAt(name, c, b, r, Read(r.h, r.v, TestLimit - 1).h)

\* s.zero
GetZero ==
    /\ pc = "init"
    /\ LET z == zero(heap, Self)
       IN  /\ heap' = z.h
           /\ opn' = "zero" /\ argc' = FZero /\ argb' = 0 /\ res' = Self /\ exn' = ""
           /\ out' = <<z.v>>
           /\ ina' = <<>> /\ inb' = <<>> /\ verdict' = FALSE
    /\ pc' = pc

\* islice(s, testlimit), as showterms and __eq__ iterate a series
Iterate ==
    /\ pc = "init"
    /\ Observe("iter", FZero, 0, Ret(heap, Self))
    /\ pc' = pc

GetHead == pc = "init" /\ pc' = "done" /\ Observe("head", FZero, 0, head(heap, Self))

GetTail == pc = "init" /\ pc' = "done" /\ Observe("tail", FZero, 0, tail(heap, Self))

GetXmul == pc = "init" /\ pc' = "done" /\ Observe("xmul", FZero, 0, xmul(heap, Self))

\* s.xmul.tail
XmulTail ==
    /\ pc = "init" /\ pc' = "done"
    /\ LET x == xmul(heap, Self)
       IN  Observe("xmul.tail", FZero, 0, tail(x.h, x.v))

\* s.head + s.tail.xmul
HeadPlusTailXmul ==
    /\ pc = "init" /\ pc' = "done"
    /\ LET hd == head(heap, Self)
           t  == tail(hd.h, Self)
           x  == xmul(t.h, t.v)
       IN  Observe("head+tail.xmul", FZero, 0, add(x.h, hd.v, x.v))

\* s + t
AddSeries ==
    /\ pc = "init" /\ pc' = "done"
    /\ \E g \in OtherG :
          LET b == Build(heap, g)
          IN  Observe("add", FZero, b.v, add(b.h, Self, b.v))

\* s + c, c + s
AddFraction ==
    /\ pc = "init" /\ pc' = "done"
    /\ \E c \in Scalars : Observe("addF", c, 0, addF(heap, Self, c))

\* s * c, c * s
MulFraction ==
    /\ pc = "init" /\ pc' = "done"
    /\ \E c \in Scalars : Observe("mulF", c, 0, mulF(heap, Self, c))

\* s * t
MulSeries ==
    /\ pc = "init" /\ pc' = "done"
    /\ \E g \in OtherG :
          LET b == Build(heap, g)
          IN  Observe("mul", FZero, b.v, mul(b.h, Self, b.v))

\* s.reciprocal()
GetReciprocal ==
    pc = "init" /\ pc' = "done" /\ Observe("reciprocal", FZero, 0, reciprocal(heap, Self))

\* s * s.reciprocal()
TimesReciprocal ==
    /\ pc = "init" /\ pc' = "done"
    /\ Observe("s*recip", FZero, 0,
               TimesR(Ret(heap, Self), reciprocal(heap, Self)))

\* s / t
DivSeries ==
    /\ pc = "init" /\ pc' = "done"
    /\ \E g \in OtherG :
          LET b == Build(heap, g)
          IN  Observe("div", FZero, b.v, div(b.h, Self, b.v))

\* c / s
RDivFraction ==
    /\ pc = "init" /\ pc' = "done"
    /\ \E c \in Scalars : Observe("rdiv", c, 0, rdiv(heap, Self, c))

\* s.squareroot()
GetSquareroot ==
    pc = "init" /\ pc' = "done" /\ Observe("squareroot", FZero, 0, squareroot(heap, Self))

\* s.derivative()
GetDerivative ==
    pc = "init" /\ pc' = "done" /\ Observe("derivative", FZero, 0, derivative(heap, Self))

\* s.integral(c)
GetIntegral ==
    /\ pc = "init" /\ pc' = "done"
    /\ \E c \in Scalars : Observe("integral", c, 0, integral(heap, Self, c))

\* D.integral(z) for the derivative D and the term z calls returned
IntegralAt(D, z) == integral(z.h, D.v, z.v)

\* D.integral(s.zero) for the derivative D a call returned
IntegralAtZero(D) == IntegralAt(D, zero(D.h, Self))

\* s.derivative().integral(s.zero)
IntegDeriv ==
    /\ pc = "init" /\ pc' = "done"
    /\ Observe("integ.deriv", FZero, 0, IntegralAtZero(derivative(heap, Self)))

\* I.derivative() for the integral I a call returned
DerivativeOf(r) == derivative(r.h, r.v)

\* s.integral(c).derivative()
DerivInteg ==
    /\ pc = "init" /\ pc' = "done"
    /\ \E c \in Scalars :
          Observe("deriv.integ", c, 0, DerivativeOf(integral(heap, Self, c)))

\* s(t)
Compose ==
    /\ pc = "init" /\ pc' = "done"
    /\ \E g \in OtherG :
          LET b == Build(heap, g)
          IN  Observe("compose", FZero, b.v, compose(b.h, Self, b.v))

\* s.exponential()
GetExponential ==
    pc = "init" /\ pc' = "done" /\ Observe("exponential", FZero, 0, exponential(heap, Self))

\* s.logarithm()
GetLogarithm ==
    pc = "init" /\ pc' = "done" /\ Observe("logarithm", FZero, 0, logarithm(heap, Self))

\* L.exponential() for the logarithm L a call returned, unless it raised
ExponentialOf(L) == IF L.h.err THEN L ELSE exponential(L.h, L.v)

\* E - ONE for the exponential E a call returned, unless it raised
MinusOne(E, one) == IF E.h.err THEN E ELSE sub(E.h, E.v, one)

\* ONE = nthpower(0); s.logarithm().exponential() - ONE
ExpLogMinusOne ==
    /\ pc = "init" /\ pc' = "done"
    /\ LET one == nthpower(heap, 0, FOne)
       IN  Observe("exp.log-1", FZero, one.v,
                   MinusOne(ExponentialOf(logarithm(one.h, Self)), one.v))

\* s.inverse()
GetInverse ==
    pc = "init" /\ pc' = "done" /\ Observe("inverse", FZero, 0, inverse(heap, Self))

\* I.inverse() for the inverse I a call returned, unless it raised
InverseOf(I) == IF I.h.err THEN I ELSE inverse(I.h, I.v)

\* s.inverse().inverse()
InverseInverse ==
    /\ pc = "init" /\ pc' = "done"
    /\ Observe("inv.inv", FZero, 0, InverseOf(inverse(heap, Self)))

\* s(I) for the inverse I a call returned, unless it raised
ComposedWith(I) == IF I.h.err THEN I ELSE compose(I.h, Self, I.v)

\* s(s.inverse())
ComposeInverse ==
    /\ pc = "init" /\ pc' = "done"
    /\ Observe("s(inv)", FZero, 0, ComposedWith(inverse(heap, Self)))

\* Q * Q for the square root Q a call returned, unless it raised
Squared(Q) == IF Q.h.err THEN Q ELSE mul(Q.h, Q.v, Q.v)

\* s.squareroot() * s.squareroot()
SqrtSquared ==
    /\ pc = "init" /\ pc' = "done"
    /\ Observe("sqrt*sqrt", FZero, 0, Squared(squareroot(heap, Self)))

\* islice(r, testlimit) once more, r the series the last call returned
IterateResult ==
    /\ pc = "done" /\ res # 0
    /\ pc' = "again"
    /\ Observe("iter.res", argc, argb, Ret(heap, res))

\* A third series for comparisons: nseries() or
\* PowerSeries(l=[Fraction(1, 1), Fraction(0, 1)]).
ThirdG == {G("f", 0, 0, FZero, <<>>, 1), G("l", 0, 0, FZero, <<FOne, FZero>>, 0)}

\* The values of testlimit: the class's, or one the caller has set on s.
TestLimits == {TestLimit - 1, TestLimit}

\* What the caller sees of a comparison of s with b that gave r, with
\* s.testlimit = k.
Compared(name, k, b, r, ops) ==
    /\ opn' = name /\ argc' = Fraction(k, 1) /\ argb' = b
    /\ res' = 0 /\ out' = <<>>
    /\ IF r.h.err
       THEN /\ heap' = Unwind(r.h) /\ exn' = r.h.exc /\ verdict' = FALSE
            /\ ina' = <<>> /\ inb' = <<>>
       ELSE /\ heap' = r.h /\ exn' = "" /\ verdict' = r.v
            /\ ina' = ops[1]
            /\ inb' = ops[2]

\* The terms of the operands after the comparison
ComparedAt(name, k, b, r) == Compared(name, k, b, r, Operands(r.h, b))

\* s == b, with a third series u made before
EqualTo(b, k) == ComparedAt("eq", k, b.v, eq(b.h, Self, b.v, k))

Equal ==
    /\ pc = "init" /\ pc' = "done"
    /\ \E g \in OtherG, u \in ThirdG, k \in TestLimits :
          EqualTo(Build(Build(heap, u).h, g), k)

\* s != b
NotEqualTo(b, k) == ComparedAt("ne", k, b.v, ne(b.h, Self, b.v, k))

NotEqual ==
    /\ pc = "init" /\ pc' = "done"
    /\ \E g \in OtherG, k \in TestLimits : NotEqualTo(Build(heap, g), k)

\* The requests whose result the series keeps.
Kept ==
    {"head", "tail", "xmul", "add", "addF", "mulF", "mul", "reciprocal",
     "squareroot", "derivative", "integral", "compose", "exponential",
     "logarithm", "inverse"}

\* The request name on s with the Fraction c or the series b
Request(name, h, s, c, b) ==
    CASE name = "head"        -> head(h, s)
      [] name = "tail"        -> tail(h, s)
      [] name = "xmul"        -> xmul(h, s)
      [] name = "add"         -> add(h, s, b)
      [] name = "addF"        -> addF(h, s, c)
      [] name = "mulF"        -> mulF(h, s, c)
      [] name = "mul"         -> mul(h, s, b)
      [] name = "reciprocal"  -> reciprocal(h, s)
      [] name = "squareroot"  -> squareroot(h, s)
      [] name = "derivative"  -> derivative(h, s)
      [] name = "integral"    -> integral(h, s, c)
      [] name = "compose"     -> compose(h, s, b)
      [] name = "exponential" -> exponential(h, s)
      [] name = "logarithm"   -> logarithm(h, s)
      [] name = "inverse"     -> inverse(h, s)

\* The request that returned a series, or raised ValueError, made once more
\* with the same operand
Repeat ==
    /\ pc = "done" /\ opn \in Kept
    /\ res # 0 \/ exn = "ValueError"
    /\ pc' = IF res # 0 THEN "repeated" ELSE "retried"
    /\ Observe(opn, argc, argb, Request(opn, heap, Self, argc, argb))

\* The requests whose result is a product, or is made of products with
\* itself.
Producers ==
    {"mul", "compose", "reciprocal", "squareroot", "exponential", "inverse"}

\* What the caller sees of a request that gave r and of next() on the result
\* up to the term of index k, which leaves the heap hr: out is all that the
\* result holds of its terms by then.
Yielded(name, k, b, r, hr) ==
    /\ opn' = name \o "[k]" /\ argc' = Fraction(k, 1) /\ argb' = b
    /\ verdict' = FALSE /\ ina' = <<>> /\ inb' = <<>>
    /\ IF r.h.err
       THEN heap' = Unwind(r.h) /\ res' = 0 /\ exn' = r.h.exc /\ out' = <<>>
       ELSE IF hr.err
       THEN heap' = Unwind(hr) /\ res' = r.v /\ exn' = hr.exc /\ out' = <<>>
       ELSE heap' = hr /\ res' = r.v /\ exn' = "" /\ out' = hr.objs[r.v].cache

\* islice(r, k + 1) after the request
ProducedAt(name, k, b, r) == Yielded(name, k, b, r, Read(r.h, r.v, k).h)

\* The request name on s, with the operand b if it takes one
ProduceWith(name, k, b) ==
    ProducedAt(name, k, IF name \in {"mul", "compose"} THEN b.v ELSE 0,
               Request(name, b.h, Self, FZero, b.v))

\* A request and the terms of its result up to one index and no further
Produce ==
    /\ pc = "init" /\ pc' = "produced"
    /\ \E name \in Producers, k \in 0 .. TestLimit - 1 :
          \E g \in IF name \in {"mul", "compose"} THEN OtherG
                    ELSE {G("self", 0, 0, FZero, <<>>, 0)} :
             ProduceWith(name, k, Build(heap, g))

\* After s + t or s * t, t a series: s + c or s * c for the Fraction c whose
\* value is id(t)
WithId ==
    /\ pc = "done" /\ res # 0 /\ opn \in {"add", "mul"}
    /\ pc' = "keyed"
    /\ Observe(opn \o ".id", IdKey(argb), argb,
               IF opn = "add" THEN addF(heap, Self, IdKey(argb))
               ELSE mulF(heap, Self, IdKey(argb)))

ANext ==
    \/ GetZero \/ Iterate \/ Repeat \/ Equal \/ NotEqual \/ Produce \/ WithId
    \/ GetHead \/ GetTail \/ GetXmul \/ XmulTail \/ HeadPlusTailXmul
    \/ AddSeries \/ AddFraction \/ MulFraction \/ MulSeries
    \/ GetReciprocal \/ TimesReciprocal \/ DivSeries \/ RDivFraction
    \/ GetSquareroot \/ IterateResult
    \/ GetDerivative \/ GetIntegral \/ IntegDeriv \/ DerivInteg
    \/ Compose \/ GetExponential \/ GetLogarithm \/ ExpLogMinusOne
    \/ GetInverse \/ InverseInverse \/ ComposeInverse \/ SqrtSquared

\* ------------------------------------------------------------------------
\* PowerFunction (src/powerfunc.py): a function f = PowerFunction(series) and
\* one call f(x, terms, error, figures), the loop of __call__ one term at a
\* time
\* ------------------------------------------------------------------------
VARIABLES ev    \* the series, the arguments and the local variables of the call

\* Class fields of PowerFunction.
error == Fraction(1, 10000)
error_terms == 1

FAbs(a) == Fraction(Abs(a[1]), a[2])

\* An argument left at None is <<>>, one that is given is <<value>>.
NoArg == <<>>
Arg(v) == <<v>>

\* The series as the iteration sees it: the terms of prefix, then rest for
\* ever (PowerSeries(l=prefix) has rest 0, constseries(c) has rest c).
TermOf(S, n) == IF n < Len(S.prefix) THEN S.prefix[n + 1] ELSE S.rest

\* The series a function is made of: lists padded with zeros, series that
\* settle at 1, and 1 + x/20000.
EvalSeries ==
    {[prefix |-> l, rest |-> r] : l \in SeqsUpTo(Coefs, MaxLen), r \in {FZero, FOne}}
        \cup {[prefix |-> <<FOne, Fraction(1, 20000)>>, rest |-> FZero]}

\* The test fields of a function that has not been called: nothing in them.
NoTestfields == [terms_last |-> <<>>, ratio_last |-> NoArg, ratio_count |-> 0]

\* Variant: the count of failed ratio tests is carried over to the next call.
C29_clear_testfields_KeepCount(f) ==
    [terms_last |-> <<>>, ratio_last |-> NoArg, ratio_count |-> f.ratio_count]

\* _clear_testfields on the test fields f: terms_last is a deque of at most
\* error_terms terms, ratio_last the last nonzero term (None at first),
\* ratio_count the number of times the ratio test has failed.
clear_testfields(f) ==
    [terms_last |-> <<>>, ratio_last |-> NoArg, ratio_count |-> 0]

\* deque(maxlen=error_terms).append(term)
DequeAppend(d, term) ==
    IF Len(d) < error_terms THEN Append(d, term)
    ELSE SubSeq(Append(d, term), Len(d) + 2 - error_terms, Len(d) + 1)

RECURSIVE SumSeq(_)
SumSeq(d) == IF d = <<>> THEN FZero ELSE FAdd(d[1], SumSeq(Tail(d)))

\* Variant: the ratio is compared with 1 as it is, sign and all.
C26_RatioFails_NoAbs(f, term) ==
    f.ratio_last # NoArg /\ FLess(FOne, FDiv(term, f.ratio_last[1]))

\* The ratio test: ratio_last is set and abs(term / ratio_last) > 1
RatioFails(f, term) ==
    f.ratio_last # NoArg /\ FLess(FOne, FAbs(FDiv(term, f.ratio_last[1])))

Verdict(r, f) == [r |-> r, f |-> f]

\* Variant: DivergenceError as soon as the count reaches ratio_max.
C21_converged_ratio_AtMax(f, term, count) ==
    IF count >= ratio_max
    THEN Verdict("raise", [f EXCEPT !.ratio_count = count])
    ELSE Verdict("False", [f EXCEPT !.ratio_count = count, !.ratio_last = Arg(term)])

\* converged() after the convergence test has failed: count, raise or go on
converged_ratio(f, term, count) ==
    IF count > ratio_max
    THEN Verdict("raise", [f EXCEPT !.ratio_count = count])
    ELSE Verdict("False", [f EXCEPT !.ratio_count = count, !.ratio_last = Arg(term)])

\* converged() for a nonzero term, f.terms_last holding it already
converged_nonzero(f, term, result, eps) ==
    IF FLess(FAbs(SumSeq(f.terms_last)), FAbs(FMul(eps, result)))
    THEN Verdict("True", f)
    ELSE converged_ratio(f, term,
                         IF RatioFails(f, term) THEN f.ratio_count + 1 ELSE f.ratio_count)

\* Variant: the test is made for a zero term too.
C20_converged_ZeroToo(f, term, result, eps) ==
    IF term = FZero
    THEN Verdict(IF FLess(FZero, FAbs(FMul(eps, result))) THEN "True" ELSE "False", f)
    ELSE converged_nonzero([f EXCEPT !.terms_last = DequeAppend(@, term)],
                           term, result, eps)

\* converged(x, n, term, result, error) on the test fields f: True, False,
\* or DivergenceError raised.
converged(f, term, result, eps) ==
    IF term = FZero THEN Verdict("False", f)
    ELSE converged_nonzero([f EXCEPT !.terms_last = DequeAppend(@, term)],
                           term, result, eps)

\* The function before its first call: calls counts the calls made, before
\* is how the call before the last one ended.
NewFunction(S) ==
    [pc |-> "new", series |-> S, x |-> FZero, terms |-> NoArg, error_arg |-> NoArg,
     figures |-> NoArg, limit |-> 0, error |-> FZero, n |-> 0, xt |-> FOne,
     result |-> FZero, f |-> NoTestfields, broke |-> FALSE, exc |-> "",
     calls |-> 0, before |-> "none"]

\* No function in use.
EIdle == ev = [NewFunction([prefix |-> <<>>, rest |-> FZero]) EXCEPT !.pc = "idle"]

EInit == \E S \in EvalSeries : ev = NewFunction(S)

\* The values of x, of terms, of error and of figures the caller passes.
Xs == Scalars
TermCounts == {NoArg} \cup {Arg(k) : k \in 0 .. terms_max}
Errors == {NoArg, Arg(Fraction(-1, 2))}
Figures == {NoArg, Arg(1)}

\* The tolerance: 1 / 10**figures if figures is given, else error if it is
\* given, else the class field, and of that the absolute value.
Tolerance(err, figures) ==
    FAbs(IF figures # NoArg THEN Fraction(1, IPow(10, figures[1]))
         ELSE IF err # NoArg THEN err[1]
         ELSE error)

\* Variant: one term more than terms_max when terms is None.
C22_Limit_OneMore(terms) == IF terms = NoArg THEN terms_max + 1 ELSE terms[1]

\* The number of terms islice takes: terms, or terms_max if terms is None.
Limit(terms) == IF terms = NoArg THEN terms_max ELSE terms[1]

\* f(x, terms, error, figures) up to the loop, on a function that is new or
\* whose last call has returned or raised; islice of no terms ends it.
Call ==
    /\ ev.pc \in {"new", "returned", "raised"}
    /\ ev.calls < MaxCalls
    /\ \E x \in Xs, terms \in TermCounts, err \in Errors, figures \in Figures :
          ev' = [ev EXCEPT !.pc = IF Limit(terms) = 0 THEN "returned" ELSE "loop",
                           !.x = x, !.terms = terms, !.error_arg = err,
                           !.figures = figures, !.limit = Limit(terms),
                           !.error = Tolerance(err, figures),
                           !.result = FZero, !.f = clear_testfields(ev.f),
                           !.xt = FOne, !.n = 0, !.broke = FALSE, !.exc = "",
                           !.calls = ev.calls + 1, !.before = ev.pc]

\* The rest of one round of the loop, c what converged() gave for term:
\* break and return result; DivergenceError; or xt *= x and the next round,
\* which returns result when islice has no more terms.
Round(c, term, result) ==
    CASE c.r = "True"  ->
            ev' = [ev EXCEPT !.pc = "returned", !.result = result, !.f = c.f,
                             !.broke = TRUE]
      [] c.r = "raise" ->
            ev' = [ev EXCEPT !.pc = "raised", !.exc = "DivergenceError",
                             !.result = result, !.f = c.f]
      [] OTHER         ->
            ev' = [ev EXCEPT !.pc = IF ev.n + 1 = ev.limit THEN "returned" ELSE "loop",
                             !.result = result, !.f = c.f,
                             !.xt = FMul(ev.xt, ev.x), !.n = ev.n + 1]

\* self.converged(x, n, term, result, error), and what follows from it
Summed(term, result) ==
    \E c \in {converged(ev.f, term, result, ev.error)} : Round(c, term, result)

\* result += term; then the test
Termed(term) ==
    \E result \in {FAdd(ev.result, term)} : Summed(term, result)

\* One round of for n, t in enumerate(islice(self.__series, terms)):
\* term = t * xt
Step ==
    /\ ev.pc = "loop"
    /\ \E term \in {FMul(TermOf(ev.series, ev.n), ev.xt)} : Termed(term)

ENext == Call \/ Step

\* ------------------------------------------------------------------------
\* cached_class (src/cached_class.py)
\* ------------------------------------------------------------------------
VARIABLES cls   \* the cache of one decorated class, the instances made of it,
                \* and, as history, the constructions asked for

\* Python values as constructor arguments: r, what the value is (two values
\* are equal exactly when r is the same); h, whether it can be hashed. A
\* string, the list [], and a tuple of two values, which hashes its members.
Str(s) == [r |-> "'" \o s \o "'", h |-> TRUE]
EmptyList == [r |-> "[]", h |-> FALSE]
Pair(a, b) == [r |-> "(" \o a.r \o ", " \o b.r \o ")", h |-> a.h /\ b.h]

\* The positional arguments (*args) and keyword arguments (**kwds) of the
\* constructions: the ones of the module's doctests, and a tuple.
ArgLists ==
    {<<>>, <<Str("a")>>, <<Str("a"), Str("a")>>, <<EmptyList>>,
     <<Pair(Str("a"), Str("a"))>>, <<Str("b")>>}
Names == {"a", "b"}
KwdValues == {Str("a"), EmptyList}
KwdSets == UNION {[N -> KwdValues] : N \in SUBSET Names}

\* tuple(kwds.iteritems()): the (name, value) tuples of the dict. A dict of
\* the names 'a' and 'b' iterates 'a' first, whichever was given first.
Item(kwds, k) == Pair(Str(k), kwds[k])
Items(kwds) ==
    (IF "a" \in DOMAIN kwds THEN <<Item(kwds, "a")>> ELSE <<>>)
       \o (IF "b" \in DOMAIN kwds THEN <<Item(kwds, "b")>> ELSE <<>>)

\* key = args + tuple(kwds.iteritems())
Key(args, kwds) == args \o Items(kwds)

\* cache.get(key, None) raises TypeError unless every member of the key can
\* be hashed.
Hashable(key) == \A i \in DOMAIN key : key[i].h

\* inst = klass(*args, **kwds): a new instance, initialized by klass.__init__
\* (inits counts the runs of it), kept under the key unless key is None
Made(c, args, kwds, key) ==
    [c EXCEPT !.insts = Append(@, [args |-> args, kwds |-> kwds, inits |-> 1]),
              !.cache = IF key = NoArg THEN @
                        ELSE (key[1] :> (Len(c.insts) + 1)) @@ @]

\* _decorated.__new__ with the instance found in the cache (0: none) and the
\* key (NoArg for None, when it cannot be hashed); _decorated.__init__, which runs on
\* the instance returned, does nothing.
New_inst(c, args, kwds, inst, key) ==
    [(IF inst = 0 THEN Made(c, args, kwds, key) ELSE c)
        EXCEPT !.calls = Append(@, [args |-> args, kwds |-> kwds,
                                    inst |-> IF inst = 0 THEN Len(c.insts) + 1
                                             ELSE inst])]

\* _decorated.__new__(cls, *args, **kwds) after key has been computed
New_key(c, args, kwds, key) ==
    CASE ~Hashable(key)           -> New_inst(c, args, kwds, 0, NoArg)
      [] key \in DOMAIN c.cache   -> New_inst(c, args, kwds, c.cache[key], Arg(key))
      [] OTHER                    -> New_inst(c, args, kwds, 0, Arg(key))

\* Test(*args, **kwds)
Construct ==
    /\ Len(cls.calls) < MaxMade
    /\ \E args \in ArgLists, kwds \in KwdSets :
          cls' = New_key(cls, args, kwds, Key(args, kwds))

NoClass == [cache |-> <<>>, insts |-> <<>>, calls |-> <<>>]
CInit == cls = NoClass
CNext == Construct

\* ------------------------------------------------------------------------
\* IndexedGenerator (src/IndexedGenerator.py)
\* ------------------------------------------------------------------------
VARIABLES ig    \* one IndexedGenerator that has been called once, with the
                \* indexediterator the call returned

\* The items the wrapped generator yields before it ends.
ItemLists == SeqsUpTo({"x", "y"}, MaxItems)

\* The indexes asked for: below -2 * len and above len for every generator.
Indexes == -(2 * MaxItems + 1) .. MaxItems + 1

\* The last request: op, index, how it ended (r) and with what (v: an item,
\* or a length); len0 and empty0, the length of the cache and the value of
\* __empty before it.
Last(op, index, r, v, g) ==
    [op |-> op, index |-> index, r |-> r, v |-> v,
     len0 |-> Len(g.cache), empty0 |-> g.empty]

\* IndexedGenerator.__init__ and __call__ on the generator function that
\* yields items: gen, the items; pos, how many of them self.__iter has
\* yielded; cache and empty; n and done, the local n of the generator object
\* of _iterable and whether it has finished.
NewIndexed(items) ==
    [gen |-> items, pos |-> 0, cache |-> <<>>, empty |-> FALSE,
     n |-> 0, done |-> FALSE,
     last |-> [op |-> "call", index |-> 0, r |-> "", v |-> "", len0 |-> 0,
               empty0 |-> FALSE]]

\* What _retrieve returns from the state g: the sentinel, an item, or the
\* IndexError of a list index out of range.
Sentinel(g) == [g |-> g, r |-> "sentinel", v |-> ""]
Found(g, v) == [g |-> g, r |-> "item", v |-> v]
Missing(g) == [g |-> g, r |-> "IndexError", v |-> ""]

\* l[k] for a Python list l: a negative k counts from the end.
ListAt(g, l, k) ==
    CASE 0 <= k /\ k < Len(l)   -> Found(g, l[k + 1])
      [] -Len(l) <= k /\ k < 0  -> Found(g, l[Len(l) + k + 1])
      [] OTHER                  -> Missing(g)

\* _itemcount(): the length, or NoArg for None
itemcount(g) == IF g.empty THEN Arg(Len(g.cache)) ELSE NoArg

\* The loop of _retrieve: while (not self.__empty) and (n >= len(self.__cache))
RECURSIVE Fill(_, _)
Fill(g, n) ==
    IF ~g.empty /\ n >= Len(g.cache)
    THEN IF g.pos < Len(g.gen)
         THEN Fill([g EXCEPT !.cache = Append(@, g.gen[g.pos + 1]), !.pos = @ + 1], n)
         ELSE Fill([g EXCEPT !.empty = TRUE], n)
    ELSE g

\* _retrieve(n) after the loop
Filled(g, n) ==
    IF g.empty /\ n >= Len(g.cache) THEN Sentinel(g) ELSE ListAt(g, g.cache, n)

\* _retrieve(n) for n < 0, with end = self._itemcount()
Negative(g, n, end) ==
    IF end = NoArg \/ end = Arg(0) THEN Sentinel(g)
    ELSE ListAt(g, g.cache, end[1] + n)

\* _retrieve(n)
retrieve(g, n) ==
    IF n < 0 THEN Negative(g, n, itemcount(g)) ELSE Filled(Fill(g, n), n)

\* indexediterator.__getitem__(index) with the result of _retrieve
GotItem(index, t) ==
    ig' = [t.g EXCEPT !.last = Last("getitem", index,
                                    IF t.r = "sentinel" THEN "IndexError" ELSE t.r,
                                    t.v, ig)]

\* ng[index]
GetItem == \E index \in Indexes : GotItem(index, retrieve(ig, index))

\* len(ng): indexediterator.__len__
GetLen ==
    ig' = [ig EXCEPT !.last = Last("len", 0,
                                   IF itemcount(ig) = NoArg THEN "TypeError" ELSE "int",
                                   IF itemcount(ig) = NoArg THEN 0 ELSE itemcount(ig)[1],
                                   ig)]

\* next(ng) with the result of _retrieve(n) in _iterable: the generator
\* object of _iterable breaks at the sentinel and is finished from then on.
GotNext(t) ==
    ig' = IF t.r = "sentinel"
          THEN [t.g EXCEPT !.done = TRUE, !.last = Last("next", ig.n, "StopIteration", "", ig)]
          ELSE [t.g EXCEPT !.n = @ + 1, !.last = Last("next", ig.n, t.r, t.v, ig)]

\* next(ng): indexediterator.next
GetNext ==
    IF ig.done THEN ig' = [ig EXCEPT !.last = Last("next", ig.n, "StopIteration", "", ig)]
    ELSE GotNext(retrieve(ig, ig.n))

IInit == \E items \in ItemLists : ig = NewIndexed(items)
INext == GetItem \/ GetLen \/ GetNext

\* ------------------------------------------------------------------------
\* memoize_generator on PowerSeries._gen (src/AllPurposeDecorator.py,
\* src/memoize_generator.py)
\* ------------------------------------------------------------------------
VARIABLES dec   \* the decorator object of _gen with its map of methods, the
                \* PowerSeries instances in memory and the caller's references

Addrs == 1 .. NumAddrs

\* No instance at any address, an empty self.__instmap. at: the instance at
\* each address, by its number in the order of construction (0: the address
\* is free); roots: the instances the caller holds; made: the number of
\* instances made; instmap: under id(instance), the method made for it, as
\* gen, the instance the MemoizedGenerator was made for, and self, the
\* im_self of the method; last: the last self._gen looked up, by inst, the
\* instance, and got, the method returned.
NoDecorator ==
    [at |-> [a \in Addrs |-> 0], roots |-> {}, made |-> 0, instmap |-> <<>>,
     last |-> [inst |-> 0, got |-> [gen |-> 0, self |-> 0]]]

\* id(instance)
IdOf(d, s) == CHOOSE a \in Addrs : d.at[a] = s

\* The instance s is referenced by the caller only.
C27_Held_ByCaller(d, s) == s \in d.roots

\* The instance s is referenced: by the caller, or as the im_self of a
\* method kept in __instmap.
Held(d, s) ==
    \/ s \in d.roots
    \/ \E k \in DOMAIN d.instmap : d.instmap[k].self = s

\* An instance nothing references is deallocated, and its address is free.
Swept(d) == [d EXCEPT !.at = [a \in Addrs |-> IF Held(d, d.at[a]) THEN d.at[a] ELSE 0]]

\* PowerSeries(...): a new instance at some free address
NewSeries ==
    /\ dec.made < MaxSeries
    /\ \E a \in {b \in Addrs : dec.at[b] = 0} :
          dec' = [dec EXCEPT !.made = @ + 1, !.at[a] = dec.made + 1,
                             !.roots = @ \cup {dec.made + 1}]

\* The caller gives up its reference to the instance s.
Forget ==
    \E s \in dec.roots : dec' = Swept([dec EXCEPT !.roots = @ \ {s}])

\* __get__(instance, cls) with key = id(instance): the method for the key is
\* made unless there is one, and returned.
Get(d, s, key) ==
    IF key \in DOMAIN d.instmap
    THEN [d EXCEPT !.last = [inst |-> s, got |-> d.instmap[key]]]
    ELSE [d EXCEPT !.instmap = (key :> [gen |-> s, self |-> s]) @@ @,
                   !.last = [inst |-> s, got |-> [gen |-> s, self |-> s]]]

\* iter(s): PowerSeries.__iter__ looks up self._gen
Iter == \E s \in dec.roots : dec' = Get(dec, s, IdOf(dec, s))

DInit == dec = NoDecorator
DNext == NewSeries \/ Forget \/ Iter

\* ------------------------------------------------------------------------
\* Specifications
\* ------------------------------------------------------------------------
xvars == <<cls, ig, dec>>

vars == <<mvars, avars, ev, xvars>>

\* The decorated class of SpecClass, the generator of SpecIndexed and the
\* decorator of SpecOwner, not in use.
XIdle == cls = NoClass /\ ig = NewIndexed(<<>>) /\ dec = NoDecorator

\* The memoized generator of Spec, not in use.
MIdle ==
    /\ gen = <<>> /\ cache = <<>> /\ iter = NoIter /\ empty = FALSE
    /\ cursors = [c \in Cursors |-> [st |-> "none", n |-> 0]]
    /\ log = [c \in Cursors |-> <<>>]
    /\ outcome = [c \in Cursors |-> "none"]
    /\ adv = <<>>

\* The series of SpecSeries, not in use.
AIdle ==
    /\ heap = EmptyHeap /\ pc = "idle" /\ opn = "none" /\ argc = FZero /\ argb = 0
    /\ res = 0 /\ exn = "" /\ out = <<>> /\ ina = <<>> /\ inb = <<>>
    /\ verdict = FALSE

Init == MInit /\ AIdle /\ EIdle /\ XIdle

Next == MNext /\ UNCHANGED <<avars, ev, xvars>>

\* One MemoizedGenerator and its realizations.
Spec == Init /\ [][Next]_vars

SeriesInit == AInit /\ MIdle /\ EIdle /\ XIdle

SeriesNext == ANext /\ UNCHANGED <<mvars, ev, xvars>>

\* One PowerSeries and the operations on it.
SpecSeries == SeriesInit /\ [][SeriesNext]_vars

EvalInit == EInit /\ MIdle /\ AIdle /\ XIdle

EvalNext == ENext /\ UNCHANGED <<mvars, avars, xvars>>

\* One PowerFunction and the calls of it.
SpecEval == EvalInit /\ [][EvalNext]_vars

\* The first call of a function
FirstCall == ev.calls = 0 /\ Call

LiveNext == (FirstCall \/ Step) /\ UNCHANGED <<mvars, avars, xvars>>

\* One PowerFunction and its first call, which runs on once it has begun:
\* __call__ is sequential code, each round of its loop follows the one before
\* without waiting for anything.
SpecEvalLive ==
    EvalInit /\ [][LiveNext]_vars /\ WF_vars(Step /\ UNCHANGED <<mvars, avars, xvars>>)

ClassInit ==
    CInit /\ MIdle /\ AIdle /\ EIdle /\ ig = NewIndexed(<<>>) /\ dec = NoDecorator

ClassNext == CNext /\ UNCHANGED <<mvars, avars, ev, ig, dec>>

\* One class decorated with cached_class and the constructions of it.
SpecClass == ClassInit /\ [][ClassNext]_vars

IndexedInit ==
    IInit /\ MIdle /\ AIdle /\ EIdle /\ cls = NoClass /\ dec = NoDecorator

IndexedNext == INext /\ UNCHANGED <<mvars, avars, ev, cls, dec>>

\* One IndexedGenerator, indexed and iterated.
SpecIndexed == IndexedInit /\ [][IndexedNext]_vars

OwnerInit ==
    DInit /\ MIdle /\ AIdle /\ EIdle /\ cls = NoClass /\ ig = NewIndexed(<<>>)

OwnerNext == DNext /\ UNCHANGED <<mvars, avars, ev, cls, ig>>

\* The PowerSeries instances of a program and their memoized generators.
SpecOwner == OwnerInit /\ [][OwnerNext]_vars

\* ------------------------------------------------------------------------
\* Properties of MemoizedGenerator, checked under Spec
\* ------------------------------------------------------------------------
Raised == \E i \in DOMAIN adv : adv[i].r = "raise"

\* The advances of the underlying generator that produced a term.
Produced == SelectSeq(adv, LAMBDA a : a.r = "value")

\* C1: under any interleaving of next calls, the underlying generator
\* produces a term at most once per index: the advance that produces the
\* term of index n is made at n = len(cache) and puts the term at cache[n],
\* the cache holds exactly the terms produced, in order, and every term a
\* realization yields for index n is the one cached there.
C1_ProducedOncePerIndex ==
    /\ \A i, j \in DOMAIN adv :
           (adv[i].r = "value" /\ adv[j].r = "value" /\ adv[i].n = adv[j].n) => i = j
    /\ Len(Produced) = Len(cache)
    /\ \A k \in DOMAIN Produced :
           Produced[k].n = k - 1 /\ CacheAt(cache, k - 1) = Produced[k].v
    /\ \A c \in Cursors : \A k \in DOMAIN log[c] :
           /\ log[c][k].n < Len(cache)
           /\ log[c][k].v = CacheAt(cache, log[c][k].n)

\* Two realizations have both read index 0 and only one advance produced it.
C1_Witness ==
    /\ \A c \in Cursors : Len(log[c]) >= 1
    /\ Len(Produced) >= 1
    /\ Len(cache) >= 1

\* C2: realizations of one MemoizedGenerator are independent: a step of one
\* realization leaves the position and the history of every other one as they
\* were, each realization yields the indices 0, 1, 2, ... in order, and two
\* realizations that both read index n got the same term.
C2_CursorsIndependent ==
    [][ /\ \A c, d \in Cursors :
              (c # d /\ cursors'[c] # cursors[c])
                  => (cursors'[d] = cursors[d] /\ log'[d] = log[d])
        /\ \A c \in Cursors : \A k \in DOMAIN log'[c] : log'[c][k].n = k - 1
        /\ \A c \in Cursors :
              cursors'[c].st = "susp" => cursors'[c].n = Len(log'[c]) - 1
        /\ \A c, d \in Cursors : \A k \in (DOMAIN log'[c]) \cap (DOMAIN log'[d]) :
              log'[c][k].v = log'[d][k].v ]_vars

\* Two realizations at different positions, both having read index 0.
C2_Witness ==
    \E c, d \in Cursors :
        /\ Len(log[c]) >= 2
        /\ Len(log[d]) = 1
        /\ cursors[d].st = "susp"

\* C3: once the underlying generator has signalled its end (__empty is set),
\* the stream is frozen: __empty stays set, the cache and the generator are
\* left alone, the generator is not advanced again, and a realization that
\* steps (open before or realized after) yields the cached term at its
\* position if there is one and otherwise ends.
C3_ExhaustedIsFrozen ==
    [][ empty =>
          /\ empty'
          /\ cache' = cache
          /\ adv' = adv
          /\ iter' = iter
          /\ \A c \in Cursors :
                (cursors[c].st # "none"
                    /\ (cursors'[c] # cursors[c] \/ outcome'[c] # outcome[c]))
                => IF Len(log[c]) < Len(cache)
                   THEN /\ outcome'[c] = "value"
                        /\ log'[c] = Append(log[c],
                               [n |-> Len(log[c]),
                                v |-> CacheAt(cache, Len(log[c])), ex |-> TRUE])
                   ELSE /\ outcome'[c] = "stop"
                        /\ cursors'[c].st = "done"
                        /\ log'[c] = log[c] ]_vars

\* A realization read a cached term after the end was signalled and then ended.
C3_Witness ==
    /\ empty
    /\ \E c \in Cursors :
           /\ outcome[c] = "stop"
           /\ Len(log[c]) = Len(cache)
           /\ \E k \in DOMAIN log[c] : log[c][k].ex

\* C4 as stated: after the underlying generator raised an error at index n,
\* the stream is not exhausted, and a later next on a realization (other than
\* the one the error went through) does not observe end-of-sequence.
C4_Original ==
    Raised =>
        /\ ~empty
        /\ \A c \in Cursors :
               outcome[c] = "stop" => \E i \in DOMAIN adv : adv[i].r = "raise" /\ adv[i].c = c

\* C4, amended: when the underlying generator raises while a realization asks
\* for index n, the error reaches the caller of next, the cache is unchanged
\* and the failing call does not set __empty; the realization that got the
\* error is finished. From then on the cache stays at length n, the generator
\* yields nothing more, and a request for index n by another realization
\* advances the generator again, which (a finished generator) signals its end:
\* __empty is set and that realization observes end-of-sequence.
C4_ErrorThenExhausted ==
    [][ /\ (Len(adv') > Len(adv) /\ adv'[Len(adv')].r = "raise")
            => /\ cache' = cache
               /\ ~empty'
               /\ Len(cache) = adv'[Len(adv')].n
               /\ \E c \in Cursors :
                      /\ outcome'[c] = "raise"
                      /\ cursors'[c].st = "done"
                      /\ log'[c] = log[c]
        /\ Raised
            => /\ cache' = cache
               /\ \A c \in Cursors :
                     (cursors[c].st \in {"new", "susp"} /\ cursors'[c] # cursors[c]
                         /\ Len(log[c]) = Len(cache) /\ ~empty)
                     => /\ Len(adv') = Len(adv) + 1
                        /\ adv'[Len(adv')] = [n |-> Len(cache), r |-> "stop", v |-> 0, c |-> c]
                        /\ empty'
                        /\ outcome'[c] = "stop"
               /\ \A c \in Cursors :
                     (outcome'[c] # outcome[c]) => outcome'[c] \in {"stop", "value"}
               /\ \A c \in Cursors :
                     (outcome'[c] # outcome[c] /\ outcome'[c] = "value")
                         => Len(log[c]) < Len(cache) ]_vars

\* The generator raised at index 1, and a second realization that asked for
\* index 1 afterwards observed end-of-sequence.
C4_Witness ==
    /\ Raised
    /\ Len(cache) = 1
    /\ empty
    /\ \E c, d \in Cursors :
           /\ c # d
           /\ Len(log[c]) = 1 /\ Len(log[d]) = 1
           /\ adv[Len(adv)].r = "stop"

\* ------------------------------------------------------------------------
\* Properties of PowerSeries (checked under SpecSeries)
\* ------------------------------------------------------------------------
\* The last call returned a series and reading it raised nothing.
Returned == res # 0 /\ exn = ""

\* Coefficient n (from 0) of a list of terms.
Coef(terms, n) == terms[n + 1]

\* The Cauchy product of a and b at n: the sum over i = 0..n of a_i * b_(n-i).
RECURSIVE CauchyFrom(_, _, _, _)
CauchyFrom(a, b, n, i) ==
    IF i > n THEN FZero
    ELSE FAdd(FMul(Coef(a, i), Coef(b, n - i)), CauchyFrom(a, b, n, i + 1))

Cauchy(a, b, n) == CauchyFrom(a, b, n, 0)

\* The indices the caller compares.
Indices == 0 .. TestLimit - 1

C6_HeadTailXmul ==
    /\ opn = "head" =>
          /\ Returned
          /\ \A n \in Indices : Coef(out, n) = IF n = 0 THEN Coef(ina, 0) ELSE FZero
    /\ opn = "tail" =>
          /\ Returned
          /\ \A n \in Indices : Coef(out, n) = Coef(ina, n + 1)
    /\ opn = "xmul" =>
          /\ Returned
          /\ Coef(out, 0) = FZero
          /\ \A n \in Indices : n + 1 \in Indices => Coef(out, n + 1) = Coef(ina, n)
    /\ opn \in {"head+tail.xmul", "xmul.tail"} =>
          /\ Returned
          /\ \A n \in Indices : Coef(out, n) = Coef(ina, n)

\* A series with nonzero terms after the zeroth one, put together again from
\* its head and its tail.
C6_Witness ==
    /\ opn = "head+tail.xmul" /\ Returned
    /\ Coef(ina, 0) # FZero /\ Coef(ina, 1) # FZero
    /\ Coef(out, 1) = Coef(ina, 1)

\* C7: (S + T)_n = S_n + T_n, with 0 past the end of a finite operand;
\* S + c and c + S have S_0 + c at index 0 and S_n at every n >= 1.
C7_Add ==
    /\ opn = "add" =>
          /\ Returned
          /\ \A n \in Indices : Coef(out, n) = FAdd(Coef(ina, n), Coef(inb, n))
    /\ opn = "addF" =>
          /\ Returned
          /\ \A n \in Indices :
                Coef(out, n) = IF n = 0 THEN FAdd(Coef(ina, 0), argc) ELSE Coef(ina, n)

\* A list of one term added to a longer one: the sum goes on past the end of
\* the shorter operand.
C7_Witness ==
    /\ opn = "add" /\ Returned
    /\ heap.objs[Self].g.k = "l" /\ Len(heap.objs[Self].g.l) = 1
    /\ heap.objs[argb].g.k = "l" /\ Len(heap.objs[argb].g.l) = 2
    /\ Coef(out, 0) = FAdd(Coef(ina, 0), Coef(inb, 0))
    /\ Coef(out, 1) = Coef(inb, 1) /\ Coef(out, 1) # FZero

\* C8 as stated: c * S is the empty series for c = 0, and building and
\* reading it leaves the cache of S as it was; it is S itself for c = 1; its
\* coefficient n is c * S_n otherwise.
C8_Original ==
    [][(opn' = "mulF" /\ pc = "init") =>
          /\ Returned'
          /\ argc' = FZero =>
                /\ heap'.objs[res'].g.k = "none"
                /\ \A n \in Indices : Coef(out', n) = FZero
                /\ heap'.objs[Self].cache = heap.objs[Self].cache
          /\ argc' = FOne => res' = Self
          /\ argc' \notin {FZero, FOne} =>
                \A n \in Indices : Coef(out', n) = FMul(argc', Coef(ina', n))
      ]_vars

\* C8: c * S is the empty series PowerSeries() for c = 0, built without
\* reading S; reading it leaves the cache of S as it was unless S is that
\* one shared empty series, which 0 * S then is. c * S is S itself for
\* c = 1; its coefficient n is c * S_n otherwise.
C8_ScalarMul ==
    [][(opn' = "mulF" /\ pc = "init") =>
          /\ Returned'
          /\ argc' = FZero =>
                /\ res' = heap'.emptyId
                /\ heap'.objs[res'].g.k = "none"
                /\ \A n \in Indices : Coef(out', n) = FZero
                /\ heap.emptyId # Self =>
                      heap'.objs[Self].cache = heap.objs[Self].cache
                /\ heap.emptyId = Self => res' = Self
          /\ argc' = FOne => res' = Self
          /\ argc' \notin {FZero, FOne} =>
                \A n \in Indices : Coef(out', n) = FMul(argc', Coef(ina', n))
      ]_vars

\* 0 * S for a series S with nonzero terms none of which has been read yet,
\* and still none after the product has been read.
C8_Witness ==
    /\ opn = "mulF" /\ argc = FZero /\ Returned
    /\ res # Self
    /\ heap.objs[Self].g.k = "l" /\ heap.objs[Self].cache = <<>>
    /\ Len(out) = TestLimit

\* C9: coefficient n of S * T is the sum over i = 0..n of S_i * T_(n-i),
\* also when S_0 or T_0 is 0; S * ONE = ONE * S = S.
C9_CauchyProduct ==
    opn = "mul" =>
       /\ Returned
       /\ \A n \in Indices : Coef(out, n) = Cauchy(ina, inb, n)
       /\ (heap.objs[argb].g = G("n", 0, 0, FOne, <<>>, 0)
             \/ heap.objs[Self].g = G("n", 0, 0, FOne, <<>>, 0)) =>
             \A n \in Indices :
                Coef(out, n) = IF heap.objs[Self].g = G("n", 0, 0, FOne, <<>>, 0)
                               THEN Coef(inb, n) ELSE Coef(ina, n)

\* A product in which S_0 = 0 and T_0 # 0, with a nonzero coefficient that
\* sums two products.
C9_Witness ==
    /\ opn = "mul" /\ Returned
    /\ Coef(ina, 0) = FZero /\ Coef(inb, 0) # FZero
    /\ Coef(ina, 1) # FZero /\ Coef(inb, 1) # FZero /\ Coef(ina, 2) # FZero
    /\ Coef(out, 2) = FAdd(FMul(Coef(ina, 1), Coef(inb, 1)),
                           FMul(Coef(ina, 2), Coef(inb, 0)))
    /\ Coef(out, 2) # FZero

\* ONE = (1, 0, 0, ...) scaled by c, at index n.
OneTimes(c, n) == IF n = 0 THEN c ELSE FZero

\* C10: for S with S_0 # 0 the reciprocal R has R_0 = 1 / S_0 and
\* S * R = ONE on the indices compared; S / T is S * T.reciprocal(), and
\* c / S is c * S.reciprocal().
C10_Reciprocal ==
    /\ (opn = "reciprocal" /\ heap.objs[Self].zero[1] # FZero) =>
          /\ Returned
          /\ res = heap.objs[Self].R
          /\ Coef(out, 0) = FDiv(FOne, Coef(ina, 0))
          /\ \A n \in Indices : Cauchy(ina, out, n) = OneTimes(FOne, n)
    /\ (opn = "s*recip" /\ heap.objs[Self].zero[1] # FZero) =>
          /\ Returned
          /\ \A n \in Indices : Coef(out, n) = OneTimes(FOne, n)
    /\ (opn = "div" /\ heap.objs[argb].zero[1] # FZero) =>
          /\ Returned
          /\ res = heap.objs[Self].Ms[IdKey(heap.objs[argb].R)]
          /\ \A n \in Indices : Cauchy(out, inb, n) = Coef(ina, n)
    /\ (opn = "rdiv" /\ heap.objs[Self].zero[1] # FZero) =>
          /\ Returned
          /\ \A n \in Indices : Cauchy(ina, out, n) = OneTimes(argc, n)

\* The reciprocal of a series with two nonzero terms: every coefficient of
\* the reciprocal compared is nonzero.
C10_Witness ==
    /\ opn = "reciprocal" /\ Returned
    /\ Coef(ina, 0) \notin {FZero, FOne} /\ Coef(ina, 1) # FZero
    /\ Coef(out, 0) = FDiv(FOne, Coef(ina, 0))
    /\ \A n \in Indices : Coef(out, n) # FZero

\* The zeroth coefficient of series i, once i.zero has been read.
Zero(i) == heap.objs[i].zero[1]

\* The call raised ValueError and returned no series.
RaisedAtCall == res = 0 /\ exn = "ValueError"

\* C11: every domain error is raised by the constructing call and never
\* later: reciprocal, S / T and c / S of a series with zeroth coefficient 0,
\* compose with T_0 # 0, exponential and logarithm with S_0 # 0, inverse with
\* S_0 # 0 or S_1 = 0 and squareroot with S_0 = 0 raise at the call, and
\* reading the coefficients of a series that a call returned raises nothing.
C11_DomainErrorsSynchronous ==
    /\ (opn \in {"reciprocal", "rdiv", "squareroot"} /\ Zero(Self) = FZero) =>
          RaisedAtCall
    /\ (opn = "div" /\ Zero(argb) = FZero) => RaisedAtCall
    /\ (opn = "compose" /\ Zero(argb) # FZero) => RaisedAtCall
    /\ (opn \in {"exponential", "logarithm", "inverse"} /\ Zero(Self) # FZero) =>
          RaisedAtCall
    /\ (opn = "inverse" /\ Zero(Self) = FZero
           /\ Zero(heap.objs[Self].tail) = FZero) => RaisedAtCall
    /\ res # 0 => exn = ""


\* The first TestLimit coefficients of the k-th power of the series with the
\* terms b, by Cauchy products.
RECURSIVE Power(_, _)
Power(b, k) ==
    IF k = 0 THEN [n \in 1 .. TestLimit |-> OneTimes(FOne, n - 1)]
    ELSE [n \in 1 .. TestLimit |-> Cauchy(b, Power(b, k - 1), n - 1)]

\* Coefficient n of the sum over k of a_k * b^k, for b_0 = 0: the powers
\* above n contribute nothing to it.
RECURSIVE SubstFrom(_, _, _, _)
SubstFrom(a, b, n, k) ==
    IF k > n THEN FZero
    ELSE FAdd(FMul(Coef(a, k), Coef(Power(b, k), n)), SubstFrom(a, b, n, k + 1))

Subst(a, b, n) == SubstFrom(a, b, n, 0)

\* C12: for T_0 = 0 the composition C = S(T) is returned, C_0 = S_0 and the
\* terms after it are those of tail(T) * (tail(S))(T), which makes C_n the
\* coefficient n of the sum of S_k * T^k; S(X) = S for every S.
C12_Compose ==
    (opn = "compose" /\ Zero(argb) = FZero) =>
        /\ Returned
        /\ Coef(out, 0) = Coef(ina, 0)
        /\ \A n \in Indices : Coef(out, n) = Subst(ina, inb, n)
        /\ heap.objs[argb].g.k = "n" /\ heap.objs[argb].g.n = 1 =>
              \A n \in Indices : Coef(out, n) = Coef(ina, n)

\* A composition whose terms mix several terms of both series: S = nseries
\* composed with T = (0, -2), which is 0, -2, 8.
C12_Witness ==
    /\ opn = "compose" /\ Returned /\ argb # Self
    /\ Coef(ina, 1) # FZero /\ Coef(ina, 2) # FZero /\ Coef(inb, 1) = Fraction(-2, 1)
    /\ Coef(out, 2) = Subst(ina, inb, 2) /\ Coef(out, 2) # FZero



\* C13: D(S)_n = (n + 1) * S_(n+1); I(S, c)_0 = c and I(S, c)_(n+1) =
\* S_n / (n + 1); D(I(S, c)) = S and I(D(S), S_0) = S.
C13_DerivativeIntegral ==
    /\ opn = "derivative" =>
          /\ Returned
          /\ \A n \in Indices :
                Coef(out, n) = FMul(Fraction(n + 1, 1), Coef(ina, n + 1))
    /\ opn = "integral" =>
          /\ Returned
          /\ Coef(out, 0) = argc
          /\ \A n \in Indices :
                n + 1 \in Indices =>
                   Coef(out, n + 1) = FDiv(Coef(ina, n), Fraction(n + 1, 1))
    /\ opn \in {"deriv.integ", "integ.deriv"} =>
          /\ Returned
          /\ \A n \in Indices : Coef(out, n) = Coef(ina, n)

\* The derivative of nseries (0, 1, 2, ...): 1, 4, 9, ...
C13_Witness ==
    /\ opn = "derivative" /\ Returned
    /\ Coef(ina, 2) = Fraction(2, 1) /\ Coef(out, 1) = Fraction(4, 1)



\* C14: for S_0 = 0, exponential(logarithm(S)) - ONE = S, and
\* exponential(ZERO) = ONE, ZERO the empty series.
C14_ExpLog ==
    /\ (opn = "exp.log-1" /\ Zero(Self) = FZero) =>
          /\ Returned
          /\ \A n \in Indices : Coef(out, n) = Coef(ina, n)
    /\ (opn = "exponential" /\ heap.objs[Self].g.k = "none") =>
          /\ Returned
          /\ \A n \in Indices : Coef(out, n) = OneTimes(FOne, n)

\* exp(log(S)) - ONE read back for S = nseries (0, 1, 2, ...).
C14_Witness ==
    /\ opn = "exp.log-1" /\ Returned
    /\ Coef(ina, 0) = FZero /\ Coef(ina, 1) = FOne /\ Coef(ina, 2) = Fraction(2, 1)
    /\ Coef(out, 2) = Fraction(2, 1)



\* The terms of X = nthpower(1): 0, 1, 0, 0, ...
XTerm(n) == IF n = 1 THEN FOne ELSE FZero

\* C15: for S_0 = 0 and S_1 # 0 the inverse is returned with Inv(S)_0 = 0
\* and Inv(S)_1 = 1 / S_1, S(Inv(S)) = X and Inv(Inv(S)) = S; Inv(X) = X.
C15_Inverse ==
    (/\ opn \in {"inverse", "s(inv)", "inv.inv"}
     /\ Zero(Self) = FZero /\ Zero(heap.objs[Self].tail) # FZero) =>
        /\ opn = "inverse" =>
              /\ Returned
              /\ Coef(out, 0) = FZero
              /\ Coef(out, 1) = FDiv(FOne, Coef(ina, 1))
              /\ \A n \in Indices : Subst(ina, out, n) = XTerm(n)
              /\ (\A n \in Indices : Coef(ina, n) = XTerm(n)) =>
                    \A n \in Indices : Coef(out, n) = XTerm(n)
        /\ opn = "s(inv)" =>
              /\ Returned
              /\ \A n \in Indices : Coef(out, n) = XTerm(n)
        /\ opn = "inv.inv" =>
              /\ Returned
              /\ \A n \in Indices : Coef(out, n) = Coef(ina, n)

\* The inverse of nseries (0, 1, 2, ...) is 0, 1, -2, ...; composed with it,
\* nseries gives X.
C15_Witness ==
    /\ opn = "s(inv)" /\ Returned
    /\ Coef(ina, 1) = FOne /\ Coef(ina, 2) = Fraction(2, 1)
    /\ Coef(out, 1) = FOne /\ Coef(out, 2) = FZero



ExactRoot(q) == FMul(FSqrt(q), FSqrt(q)) = q

Stored(h, i) ==
    [f \in {"head", "tail", "xmul", "R", "S", "D", "E", "I", "L"} |-> h.objs[i][f]]

Tables(h, i) ==
    [f \in {"As", "Ms", "Cs", "Is"} |-> h.objs[i][f]]

\* C17: once a request on S (head, tail, xmul, derivative(), reciprocal(),
\* inverse(), squareroot(), exponential(), logarithm(), S + T, S * T, S(T),
\* S.integral(c), T a series or a Fraction) has returned a series, the same
\* request with the same operand returns that same object, and no stored
\* result (zero included) is ever replaced or removed.
C17_ComputedOnce ==
    [][/\ (pc = "done" /\ pc' = "repeated") => res' = res
       /\ \A i \in DOMAIN heap.objs :
             /\ heap.objs[i].zero # <<>> => heap'.objs[i].zero = heap.objs[i].zero
             /\ \A f \in DOMAIN Stored(heap, i) :
                   Stored(heap, i)[f] # 0 => Stored(heap', i)[f] = Stored(heap, i)[f]
             /\ \A f \in DOMAIN Tables(heap, i) :
                   \A k \in DOMAIN Tables(heap, i)[f] :
                      /\ k \in DOMAIN Tables(heap', i)[f]
                      /\ Tables(heap', i)[f][k] = Tables(heap, i)[f][k]]_vars



\* The terms a and b agree at every index below k.
PrefixEqual(a, b, k) == \A n \in 0 .. k - 1 : Coef(a, n) = Coef(b, n)

\* The testlimit of the left operand of the last comparison.
K == argc[1]

\* What x == y gives in the state, x and y series of the heap.
Eq(x, y) == eq(heap, x, y, K).v

\* The relation E, as a table, is reflexive, symmetric and transitive.
Equivalence(E) ==
    \A x, y, z \in DOMAIN E :
       /\ E[x][x]
       /\ E[x][y] <=> E[y][x]
       /\ (E[x][y] /\ E[y][z]) => E[x][z]

\* C18: S == T is true exactly when S_n = T_n for every n < K, K the
\* testlimit of the left operand (two series that differ only from K on
\* compare equal); S != T is the negation; with one K for all series, == is
\* reflexive, symmetric and transitive.
C18_Equality ==
    /\ opn = "eq" =>
          /\ exn = ""
          /\ verdict <=> PrefixEqual(ina, inb, K)
          /\ Equivalence([x \in DOMAIN heap.objs |->
                             [y \in DOMAIN heap.objs |-> Eq(x, y)]])
    /\ opn = "ne" =>
          /\ exn = ""
          /\ verdict <=> ~PrefixEqual(ina, inb, K)

\* Two series that agree below K and differ at K compare equal.
C18_Witness ==
    /\ opn = "eq" /\ verdict /\ argb # Self
    /\ Coef(ina, 1) # FZero
    /\ Coef(ina, K) # Coef(inb, K)



\* ------------------------------------------------------------------------
\* Properties of PowerFunction, checked under SpecEval
\* ------------------------------------------------------------------------
RECURSIVE XPow(_, _)
XPow(x, i) == IF i = 0 THEN FOne ELSE FMul(x, XPow(x, i - 1))

\* t_i = S_i * x^i for the series and the x of the call
TermAt(i) == FMul(TermOf(ev.series, i), XPow(ev.x, i))

\* The sum of the terms t_0 .. t_(k-1)
RECURSIVE PartialSum(_)
PartialSum(k) == IF k = 0 THEN FZero ELSE FAdd(PartialSum(k - 1), TermAt(k - 1))

Called == ev.pc \in {"loop", "returned", "raised"}
Fixed == Called /\ ev.terms # NoArg
Adaptive == Called /\ ev.terms = NoArg

\* C19: with a term count k given, the call returns the sum of the terms
\* t_0 .. t_(k-1) whatever the series and x: it does not stop before k
\* terms and does not raise DivergenceError.
C19_FixedMode ==
    Fixed =>
        /\ ev.pc # "raised"
        /\ ~ev.broke
        /\ ev.pc = "returned" => ev.result = PartialSum(ev.terms[1])

\* The term t_i is not zero and is below the tolerance times the sum of the
\* terms up to it.
Conv(i) ==
    /\ TermAt(i) # FZero
    /\ FLess(FAbs(TermAt(i)), FMul(ev.error, FAbs(PartialSum(i + 1))))

\* C20: without a term count, the call returns by convergence at the first
\* index n with t_n # 0 and |t_n| < eps * |t_0 + ... + t_n| that it reaches,
\* and returns that sum: it goes past no such index and raises at none, and
\* it returns at no other index before the terms run out (a zero term never
\* ends it); eps is 1/10**figures when figures is given, whatever error is,
\* and 1/10000 when neither is given.
C20_Adaptive ==
    Adaptive =>
        /\ ev.figures # NoArg => ev.error = Fraction(1, IPow(10, ev.figures[1]))
        /\ (ev.figures = NoArg /\ ev.error_arg = NoArg) => ev.error = Fraction(1, 10000)
        /\ \A i \in 0 .. ev.n - 1 : ~Conv(i)
        /\ ev.pc = "raised" => ~Conv(ev.n)
        /\ (ev.pc = "returned" /\ ev.broke) =>
              /\ Conv(ev.n)
              /\ ev.result = PartialSum(ev.n + 1)
        /\ (ev.pc = "returned" /\ ~ev.broke) => ev.n = ev.limit

\* 1 + 0 x + x^2 + x^3 + ... at x = 1/2 to one figure: 1/8 is the first
\* term below a tenth of the sum, after a zero term that ended nothing.
C20_Witness ==
    /\ Adaptive /\ ev.pc = "returned" /\ ev.broke
    /\ ev.figures = Arg(1) /\ ev.error_arg # NoArg
    /\ ev.n = 3 /\ TermAt(1) = FZero /\ TermAt(3) = Fraction(1, 8)

\* ------------------------------------------------------------------------
\* Properties of the ratio test, checked under SpecEval
\* ------------------------------------------------------------------------
\* The index of the last nonzero term before t_i, -1 when there is none
RECURSIVE PrevNonzero(_)
PrevNonzero(i) ==
    IF i = 0 THEN -1
    ELSE IF TermAt(i - 1) # FZero THEN i - 1 ELSE PrevNonzero(i - 1)

\* |t_i / previous nonzero term| > 1, for t_i # 0 with a nonzero term before
Fires(i) ==
    /\ TermAt(i) # FZero
    /\ PrevNonzero(i) >= 0
    /\ FLess(FAbs(TermAt(PrevNonzero(i))), FAbs(TermAt(i)))

\* The number of indices below k at which the ratio test fires
Firings(k) == Cardinality({i \in 0 .. k - 1 : Fires(i)})

\* The number of firings in a row that end at t_i, zero terms skipped
RECURSIVE Run(_)
Run(i) ==
    IF i < 0 THEN 0
    ELSE IF TermAt(i) = FZero THEN Run(i - 1)
    ELSE IF Fires(i) THEN Run(i - 1) + 1
    ELSE 0

\* C21 as stated: DivergenceError is raised when the ratio test has fired
\* ratio_max times in a row, and only then; a call that goes on has seen no
\* ratio_max firings in a row.
C21_Original ==
    Adaptive =>
        /\ ev.pc = "raised" => Run(ev.n) = ratio_max
        /\ ev.pc = "loop" => Run(ev.n - 1) < ratio_max

\* C21: without a term count, DivergenceError is raised at the term at which
\* the ratio test fires for the (ratio_max + 1)-th time since the call began,
\* whether the firings came in a row or not; up to ratio_max firings raise
\* nothing.
C21_Divergence ==
    Adaptive =>
        /\ ev.pc = "raised" => Fires(ev.n) /\ Firings(ev.n + 1) = ratio_max + 1
        /\ ev.pc # "raised" => Firings(ev.n) <= ratio_max

\* 1 - 2x + x^2 + x^3 + ... at x = 2: the terms 1, -4, 4, 8, 16 fire at the
\* indices 1, 3 and 4, not at 2, and the third firing raises.
C21_Witness ==
    /\ Adaptive /\ ev.pc = "raised" /\ ev.n = 4
    /\ Fires(1) /\ ~Fires(2) /\ TermAt(2) # FZero /\ Fires(3) /\ Fires(4)
    /\ Run(ev.n) = ratio_max

\* Without a term count the loop reads the terms t_0 .. t_(terms_max-1) at
\* most; a call that ends by neither test has read them all and returns
\* their sum; one that ends before does so by one of the tests.
C22_Bounded ==
    Adaptive =>
        /\ ev.limit = terms_max
        /\ ev.n <= terms_max
        /\ ev.pc = "loop" => ev.n < terms_max
        /\ ev.n = terms_max =>
              /\ ev.pc = "returned" /\ ~ev.broke
              /\ ev.result = PartialSum(terms_max)
        /\ ev.pc = "raised" => Fires(ev.n)
        /\ (ev.pc = "returned" /\ ev.n < terms_max) => ev.broke /\ Conv(ev.n)

\* C22: a call without a term count always ends, by returning or by
\* DivergenceError, after at most terms_max terms of the series; when neither
\* test has fired within them it returns the sum of exactly the first
\* terms_max terms.
C22_Terminates ==
    /\ []C22_Bounded
    /\ (ev.pc = "loop") ~> (ev.pc \in {"returned", "raised"})

\* 1 + x + x^2 + ... at x = 1 with the default tolerance: no term is below
\* 1/10000 of the sum, no ratio is above 1, and the call returns terms_max.
C22_Witness ==
    /\ Adaptive /\ ev.pc = "returned" /\ ~ev.broke
    /\ ev.n = terms_max /\ ev.result = Fraction(terms_max, 1)
    /\ ev.f.ratio_count = 0 /\ ev.error = error

\* ratio_last after the terms below k have gone through converged()
LastNonzero(k) ==
    IF PrevNonzero(k) = -1 THEN NoArg ELSE Arg(TermAt(PrevNonzero(k)))

\* C26: ratio_count is the number of nonzero terms so far that were more
\* than their nonzero predecessor in absolute value, and ratio_last is the
\* last nonzero term so far; DivergenceError comes exactly when the count
\* passes ratio_max, before ratio_last takes the term; a term that passes
\* the convergence test is not counted; a zero term is skipped by both
\* tests and changes neither field.
C26_RatioCounter ==
    Called =>
        /\ ev.pc # "raised" =>
              /\ ev.f.ratio_count = Firings(ev.n)
              /\ ev.f.ratio_count <= ratio_max
        /\ ev.pc = "raised" =>
              /\ ev.f.ratio_count = Firings(ev.n + 1)
              /\ ev.f.ratio_count = ratio_max + 1
              /\ TermAt(ev.n) # FZero /\ ~Conv(ev.n)
        /\ ev.f.ratio_last = LastNonzero(ev.n)
        /\ ev.broke => TermAt(ev.n) # FZero
        /\ (ev.pc = "loop" /\ ev.n > 0 /\ TermAt(ev.n - 1) = FZero) =>
              /\ ev.f.ratio_count = Firings(ev.n - 1)
              /\ ev.f.ratio_last = LastNonzero(ev.n - 1)

\* 1 + 0 x + x^2 + x^3 + ... at x = 2, three terms done: the zero term
\* left ratio_last at 1, and 4 was counted against it.
C26_Witness ==
    /\ ev.pc = "loop" /\ ev.n = 3
    /\ TermAt(1) = FZero
    /\ ev.f.ratio_count = 1 /\ ev.f.ratio_last = Arg(Fraction(4, 1))

\* ------------------------------------------------------------------------
\* Calls of one PowerFunction, checked under SpecEval
\* ------------------------------------------------------------------------
Outcome(how, result) == [pc |-> how, result |-> result]

RECURSIVE EvalFrom(_, _, _, _, _, _, _, _)

\* What the test c of the term of index n leads to
EvalTest(S, x, limit, eps, n, xt, sum, c) ==
    CASE c.r = "True"  -> Outcome("returned", sum)
      [] c.r = "raise" -> Outcome("raised", sum)
      [] OTHER         -> EvalFrom(S, x, limit, eps, n + 1, FMul(xt, x), sum, c.f)

EvalSum(S, x, limit, eps, n, xt, f, term, sum) ==
    EvalTest(S, x, limit, eps, n, xt, sum, converged(f, term, sum, eps))

EvalTerm(S, x, limit, eps, n, xt, f, term, result) ==
    EvalSum(S, x, limit, eps, n, xt, f, term, FAdd(result, term))

\* How a call ends that stands at the term of index n with the power xt of
\* x, the sum result and the test fields f, and takes limit terms at most
EvalFrom(S, x, limit, eps, n, xt, result, f) ==
    IF n >= limit THEN Outcome("returned", result)
    ELSE EvalTerm(S, x, limit, eps, n, xt, f, FMul(TermOf(S, n), xt), result)

\* How the call f(x, terms, error, figures) ends on a function of the series
\* S that has never been called
FirstOutcome(S, x, terms, err, figures) ==
    EvalFrom(S, x, Limit(terms), Tolerance(err, figures), 0, FOne, FZero,
             NoTestfields)

\* C29: every call begins with empty test fields, and however the calls
\* before it went, it ends as the same call ends on a function that has never
\* been called: with the same sum returned, or with DivergenceError.
C29_Stateless ==
    /\ (ev.pc = "loop" /\ ev.n = 0) => ev.f = NoTestfields
    /\ ev.pc \in {"returned", "raised"} =>
          Outcome(ev.pc, ev.result)
              = FirstOutcome(ev.series, ev.x, ev.terms, ev.error_arg, ev.figures)

\* A second call, made after one that ended in DivergenceError, has returned
\* with the ratio test having failed in it.
C29_Witness ==
    /\ ev.calls = 2 /\ ev.before = "raised"
    /\ ev.pc = "returned" /\ ev.f.ratio_count >= 1

\* ------------------------------------------------------------------------
\* Productivity, checked under SpecSeries
\* ------------------------------------------------------------------------
\* The index up to which the result of the last request was read
UpTo == argc[1]

\* C23: no generator is ever resumed while it is running; and when a
\* product, a composition, a reciprocal, a square root, an exponential or an
\* inverse has given its terms up to the index k, the result holds the terms
\* 0 .. k of itself and no more: the term of index k was made from terms of
\* the result below k only (from none of them for k = 0), and the read ended.
C23_Productive ==
    /\ ~heap.reent
    /\ (pc = "produced" /\ res # 0 /\ exn = "") =>
          /\ Len(out) = UpTo + 1
          /\ Len(heap.objs[res].cache) = UpTo + 1
          /\ \A i \in DOMAIN heap.objs : ~heap.objs[i].run

\* The reciprocal of 1 + x + x^2 + ..., read up to index 1: 1 and -1.
C23_Witness ==
    /\ pc = "produced" /\ opn = "reciprocal[k]" /\ UpTo = 1
    /\ out = <<FOne, Fraction(-1, 1)>>

\* ------------------------------------------------------------------------
\* The memo tables __As and __Ms, checked under SpecSeries
\* ------------------------------------------------------------------------
\* C28: s + c and s * c, asked for a Fraction c after s + t and s * t have
\* been stored for a series t, give the series built for c, whatever c and
\* id(t) are: a sum over s and the constant series c, with the terms
\* S_0 + c, S_1, S_2, ..., and a product with the terms c * S_n.
C28_MemoSound ==
    /\ opn = "add.id" =>
          /\ res # 0
          /\ heap.objs[res].g.k = "a"
          /\ heap.objs[heap.objs[res].g.o].g = G("n", 0, 0, argc, <<>>, 0)
          /\ \A n \in 0 .. TestLimit - 1 :
                Coef(out, n) = IF n = 0 THEN FAdd(Coef(ina, 0), argc) ELSE Coef(ina, n)
    /\ opn = "mul.id" =>
          /\ res # 0
          /\ heap.objs[res].g.k = "mc" /\ heap.objs[res].g.c = argc
          /\ \A n \in 0 .. TestLimit - 1 : Coef(out, n) = FMul(argc, Coef(ina, n))

\* ------------------------------------------------------------------------
\* Requests that raise a domain error, checked under SpecSeries
\* ------------------------------------------------------------------------
\* The requests that can raise ValueError at the call.
Partial ==
    {"reciprocal", "compose", "exponential", "logarithm", "inverse", "squareroot"}

\* The request of this step raised ValueError at the call.
Fails == pc = "init" /\ pc' = "done" /\ opn' \in Partial /\ res' = 0 /\ exn' = "ValueError"

\* All that the instance i keeps in the heap h: the cached property zero,
\* the other stored results and the tables.
Memo(h, i) == <<h.objs[i].zero, Stored(h, i), Tables(h, i)>>

\* The cached properties a failing request reads, and so may set, on the
\* instance i: zero on the series whose first term is tested (the operand,
\* for compose), and tail on a series whose inverse() got past its first
\* test.
MaySet(i) ==
    {f \in {"zero", "tail"} :
        \/ f = "zero" /\ i = (IF opn' = "compose" THEN argb' ELSE Self)
        \/ f = "tail" /\ i = Self /\ opn' = "inverse" /\ heap'.objs[Self].zero = <<FZero>>}

\* A request that raises a domain error stores nothing at all in the series
\* it is made on.
C30_Original == [][Fails => Memo(heap', Self) = Memo(heap, Self)]_vars

\* C30: a request that raises a domain error (reciprocal, compose,
\* exponential, logarithm, inverse, squareroot) stores nothing in the slot or
\* table of the request, and replaces or removes nothing that was stored;
\* what it may add is the cached zero of the series whose first term it
\* tested and, for an inverse() whose series starts with 0, the cached tail
\* of the series with the tail's zero. The same request made again raises
\* the same error and changes nothing in the heap.
C30_FailureKeepsMemo ==
    [][/\ Fails =>
             /\ \A i \in DOMAIN heap.objs :
                   /\ Tables(heap', i) = Tables(heap, i)
                   /\ \A f \in DOMAIN Stored(heap, i) :
                         Stored(heap', i)[f] # Stored(heap, i)[f] =>
                            f \in MaySet(i) /\ Stored(heap, i)[f] = 0
                   /\ heap'.objs[i].zero # heap.objs[i].zero =>
                         "zero" \in MaySet(i) /\ heap.objs[i].zero = <<>>
             /\ \A i \in DOMAIN heap'.objs \ DOMAIN heap.objs :
                   /\ \A f \in DOMAIN Tables(heap', i) : Tables(heap', i)[f] = <<>>
                   /\ \A f \in DOMAIN Stored(heap', i) : Stored(heap', i)[f] = 0
                   /\ \/ i = argb' /\ opn' = "compose"
                      \/ i = heap'.objs[Self].tail /\ "tail" \in MaySet(Self)
       /\ (pc = "done" /\ pc' = "retried") =>
             /\ res' = 0 /\ exn' = exn /\ opn' = opn
             /\ heap' = heap]_vars

C30_Witness ==
    /\ pc = "retried" /\ opn = "inverse" /\ exn = "ValueError"
    /\ heap.objs[Self].tail # 0 /\ heap.objs[Self].I = 0

\* ------------------------------------------------------------------------
\* Properties of cached_class, checked under SpecClass
\* ------------------------------------------------------------------------
\* The constructions i and j were given the same positional and the same
\* keyword arguments, all of them hashable.
SameArguments(i, j) ==
    /\ cls.calls[i].args = cls.calls[j].args
    /\ cls.calls[i].kwds = cls.calls[j].kwds
    /\ \A n \in DOMAIN cls.calls[i].args : cls.calls[i].args[n].h
    /\ \A k \in DOMAIN cls.calls[i].kwds : cls.calls[i].kwds[k].h

\* C24: two constructions return the same instance if and only if they were
\* given the same positional and keyword arguments, all hashable (so a
\* positional and a keyword argument never stand for one another, and a
\* construction with an unhashable argument returns a new instance), and
\* every instance was initialized once, with the arguments of the
\* construction that made it.
C24_SameInstanceIffSameArguments ==
    /\ \A i, j \in DOMAIN cls.calls :
          i # j => (cls.calls[i].inst = cls.calls[j].inst <=> SameArguments(i, j))
    /\ \A n \in DOMAIN cls.insts : cls.insts[n].inits = 1
    /\ \A i \in DOMAIN cls.calls :
          /\ cls.calls[i].inst \in DOMAIN cls.insts
          /\ (\A j \in 1 .. i - 1 : cls.calls[j].inst # cls.calls[i].inst) =>
                /\ cls.insts[cls.calls[i].inst].args = cls.calls[i].args
                /\ cls.insts[cls.calls[i].inst].kwds = cls.calls[i].kwds

\* ------------------------------------------------------------------------
\* Properties of IndexedGenerator, checked under SpecIndexed
\* ------------------------------------------------------------------------
\* The number of items the generator yields.
Length == Len(ig.gen)

Larger(a, b) == IF a > b THEN a ELSE b

\* C25: gen[i] with i >= 0 advances the producer only until index i is
\* cached and returns item i, and raises IndexError exactly when the producer
\* ends before index i; a negative index raises IndexError while the producer
\* is not exhausted; exhaustion is recorded only by an access beyond the last
\* item, and from then on the length is known, gen[-k] is item len - k for
\* 1 <= k <= len, and any index outside [-len, len - 1] raises IndexError.
C25_Indexing ==
    /\ ig.empty => ig.cache = ig.gen
    /\ (ig.empty /\ ~ig.last.empty0) =>
          \/ ig.last.op = "getitem" /\ ig.last.index >= Length
          \/ ig.last.op = "next" /\ ig.last.index = Length
    /\ ig.last.op = "len" =>
          IF ig.empty THEN ig.last.r = "int" /\ ig.last.v = Length
          ELSE ig.last.r = "TypeError"
    /\ (ig.last.op = "getitem" /\ ig.last.index >= 0) =>
          IF ig.last.index < Length
          THEN /\ ig.last.r = "item" /\ ig.last.v = ig.gen[ig.last.index + 1]
               /\ Len(ig.cache) = Larger(ig.last.len0, ig.last.index + 1)
               /\ ig.empty = ig.last.empty0
          ELSE ig.last.r = "IndexError"
    /\ (ig.last.op = "getitem" /\ ig.last.index < 0) =>
          IF ig.last.empty0 /\ -ig.last.index <= Length
          THEN ig.last.r = "item" /\ ig.last.v = ig.gen[Length + ig.last.index + 1]
          ELSE /\ ig.last.r = "IndexError"
               /\ Len(ig.cache) = ig.last.len0 /\ ig.empty = ig.last.empty0

\* ------------------------------------------------------------------------
\* Properties of memoize_generator, checked under SpecOwner
\* ------------------------------------------------------------------------
\* C27: the memoized generator self._gen gives for an instance is the one
\* made for that instance, bound to it, whatever instances were made,
\* iterated and given up before; every method kept in the map is kept under
\* the address of the instance it was made for, which is still there.
C27_OwnStream ==
    /\ dec.last.inst # 0 =>
          dec.last.got = [gen |-> dec.last.inst, self |-> dec.last.inst]
    /\ \A k \in DOMAIN dec.instmap :
          /\ dec.instmap[k].gen = dec.at[k]
          /\ dec.instmap[k].self = dec.at[k]

\* An instance that was iterated and given up by the caller is still in
\* memory, and another instance, made after it, has been iterated.
C27_Witness ==
    \E k \in DOMAIN dec.instmap :
       /\ dec.instmap[k].self \notin dec.roots
       /\ dec.last.inst > dec.instmap[k].self
       /\ \E a \in Addrs : dec.at[a] = 0

============================================================================
